---- MODULE Spec2Model ----
(***************************************************************************)
(* repo-guardian: the reconciliation engine (internal/checker), modelled   *)
(* as a state machine over one repository of the hosting platform, and the *)
(* work queue that dispatches jobs to workers.                             *)
(*                                                                         *)
(* Every platform call of a pass is one atomic step; the local computation *)
(* that follows the call (up to the next call) belongs to the same step.   *)
(* The platform is the environment.  Its contract, as the client in        *)
(* internal/github/client.go relies on it:                                 *)
(*   - a ref name is unique: creating an existing ref is rejected;         *)
(*   - deleting a missing ref is rejected; deleting the head branch of an  *)
(*     open pull request closes that pull request;                         *)
(*   - a contents PUT without a blob sha (Repositories.CreateFile with no  *)
(*     SHA option) creates the file and is rejected when the path already  *)
(*     exists on the branch; it is rejected when the branch is missing;    *)
(*   - a pull request needs an existing head branch, and a second open     *)
(*     pull request for the same head is rejected;                         *)
(*   - any call may fail transiently (returned to the caller as an error). *)
(***************************************************************************)
EXTENDS Integers, Sequences, FiniteSets, TLC

\* ------------------------------------------------------------------ bounds
MaxPasses == 2
MaxFaults == 1
MaxExternal == 1

Workers == {1, 2}

\* ------------------------------------------------------- engine constants
BranchName == "repo-guardian/add-missing-files"
PRTitle == "chore: add missing repo configuration files"
PropertiesBranchName == "repo-guardian/set-custom-properties"
CatalogInfoBranchName == "repo-guardian/add-catalog-info"
PropertiesPRTitle == "chore: set repository custom properties"
CatalogInfoPRTitle == "chore: add catalog-info.yaml"
WorkflowPath == ".github/workflows/set-custom-properties.yml"
CatalogYaml == "catalog-info.yaml"
CatalogYml == "catalog-info.yml"
DefaultOwner == "Unclassified"
DefaultComponent == "Unclassified"

ReservedBranches == {BranchName, PropertiesBranchName, CatalogInfoBranchName}

\* --------------------------------------------------------------- strings
\* A string is an atom of the model; Chars gives its characters, so that
\* strings.ToLower and strings.Contains are computed character by character.
Chars(s) ==
    CASE s = "repo-guardian/add-missing-files" ->
           <<"r","e","p","o","-","g","u","a","r","d","i","a","n","/","a","d","d","-","m","i","s","s","i","n","g","-","f","i","l","e","s">>
      [] s = "repo-guardian/set-custom-properties" ->
           <<"r","e","p","o","-","g","u","a","r","d","i","a","n","/","s","e","t","-","c","u","s","t","o","m","-","p","r","o","p","e","r","t","i","e","s">>
      [] s = "repo-guardian/add-catalog-info" ->
           <<"r","e","p","o","-","g","u","a","r","d","i","a","n","/","a","d","d","-","c","a","t","a","l","o","g","-","i","n","f","o">>
      [] s = "chore: add missing repo configuration files" ->
           <<"c","h","o","r","e",":"," ","a","d","d"," ","m","i","s","s","i","n","g"," ","r","e","p","o"," ","c","o","n","f","i","g","u","r","a","t","i","o","n"," ","f","i","l","e","s">>
      [] s = "chore: set repository custom properties" ->
           <<"c","h","o","r","e",":"," ","s","e","t"," ","r","e","p","o","s","i","t","o","r","y"," ","c","u","s","t","o","m"," ","p","r","o","p","e","r","t","i","e","s">>
      [] s = "chore: add catalog-info.yaml" ->
           <<"c","h","o","r","e",":"," ","a","d","d"," ","c","a","t","a","l","o","g","-","i","n","f","o",".","y","a","m","l">>
      [] s = "add-codeowners" ->
           <<"a","d","d","-","c","o","d","e","o","w","n","e","r","s">>
      [] s = "Add CODEOWNERS file" ->
           <<"A","d","d"," ","C","O","D","E","O","W","N","E","R","S"," ","f","i","l","e">>
      [] s = "deps/update" ->
           <<"d","e","p","s","/","u","p","d","a","t","e">>
      [] s = "Enable Dependabot" ->
           <<"E","n","a","b","l","e"," ","D","e","p","e","n","d","a","b","o","t">>
      [] s = "Update config" ->
           <<"U","p","d","a","t","e"," ","c","o","n","f","i","g">>
      [] s = "feature/CodeOwners" ->
           <<"f","e","a","t","u","r","e","/","C","o","d","e","O","w","n","e","r","s">>
      [] s = "codeowners" ->
           <<"c","o","d","e","o","w","n","e","r","s">>
      [] s = "CODEOWNERS" ->
           <<"C","O","D","E","O","W","N","E","R","S">>
      [] s = "dependabot" ->
           <<"d","e","p","e","n","d","a","b","o","t">>
      [] s = "renovate" ->
           <<"r","e","n","o","v","a","t","e">>

Upper == <<"A","B","C","D","E","F","G","H","I","J","K","L","M",
           "N","O","P","Q","R","S","T","U","V","W","X","Y","Z">>
Lower == <<"a","b","c","d","e","f","g","h","i","j","k","l","m",
           "n","o","p","q","r","s","t","u","v","w","x","y","z">>

ToLowerChar(c) ==
    IF \E i \in 1..26 : Upper[i] = c
    THEN Lower[CHOOSE i \in 1..26 : Upper[i] = c]
    ELSE c

ToLower(cs) == [i \in 1..Len(cs) |-> ToLowerChar(cs[i])]

Contains(cs, sub) ==
    \E k \in 0..(Len(cs) - Len(sub)) :
        \A i \in 1..Len(sub) : cs[k + i] = sub[i]

\* ----------------------------------------------------------------- rules
DefaultRules == <<
    [Name |-> "CODEOWNERS",
     Paths |-> <<"CODEOWNERS", ".github/CODEOWNERS", "docs/CODEOWNERS">>,
     PRSearchTerms |-> <<"codeowners", "CODEOWNERS">>,
     DefaultTemplateName |-> "codeowners",
     TargetPath |-> ".github/CODEOWNERS",
     Enabled |-> TRUE],
    [Name |-> "Dependabot",
     Paths |-> <<".github/dependabot.yml", ".github/dependabot.yaml">>,
     PRSearchTerms |-> <<"dependabot">>,
     DefaultTemplateName |-> "dependabot",
     TargetPath |-> ".github/dependabot.yml",
     Enabled |-> TRUE],
    [Name |-> "Renovate",
     Paths |-> <<"renovate.json", "renovate.json5", ".renovaterc",
                 ".renovaterc.json", ".github/renovate.json",
                 ".github/renovate.json5">>,
     PRSearchTerms |-> <<"renovate">>,
     DefaultTemplateName |-> "renovate",
     TargetPath |-> "renovate.json",
     Enabled |-> FALSE] >>

IsEnabled(rule) == rule.Enabled

EnabledRules == SelectSeq(DefaultRules, IsEnabled)

Range(s) == {s[i] : i \in 1..Len(s)}

\* --------------------------------------------------------------- catalog
\* File contents of catalog-info.yaml / .yml.  "" is "file not found".
ValidCatalogInfo == "validCatalogInfo"
CatalogInfoNoJira == "catalogInfoNoJira"
InvalidYaml == "{{{invalid yaml"
WrongKind == "kind: API"

\* yaml.Unmarshal into Entity: ok = FALSE on a parse failure; absent keys are
\* the zero value "".
Unmarshal(content) ==
    CASE content = ValidCatalogInfo ->
           [ok |-> TRUE, APIVersion |-> "backstage.io/v1alpha1", Kind |-> "Component",
            Name |-> "my-service", Owner |-> "platform-team",
            JiraProjectKey |-> "PROJ", JiraLabel |-> "my-service"]
      [] content = CatalogInfoNoJira ->
           [ok |-> TRUE, APIVersion |-> "backstage.io/v1alpha1", Kind |-> "Component",
            Name |-> "my-service", Owner |-> "platform-team",
            JiraProjectKey |-> "", JiraLabel |-> ""]
      [] content = WrongKind ->
           [ok |-> TRUE, APIVersion |-> "backstage.io/v1alpha1", Kind |-> "API",
            Name |-> "my-service", Owner |-> "platform-team",
            JiraProjectKey |-> "PROJ", JiraLabel |-> "my-service"]
      [] content = InvalidYaml ->
           [ok |-> FALSE, APIVersion |-> "", Kind |-> "", Name |-> "", Owner |-> "",
            JiraProjectKey |-> "", JiraLabel |-> ""]
      [] OTHER ->
           [ok |-> TRUE, APIVersion |-> "", Kind |-> "", Name |-> "", Owner |-> "",
            JiraProjectKey |-> "", JiraLabel |-> ""]

defaults ==
    [Owner |-> DefaultOwner, Component |-> DefaultComponent,
     JiraProject |-> "", JiraLabel |-> ""]

Parse(content) ==
    LET entity == Unmarshal(content) IN
    IF ~entity.ok THEN defaults
    ELSE IF entity.APIVersion # "backstage.io/v1alpha1" \/ entity.Kind # "Component"
    THEN defaults
    ELSE [Owner |-> IF entity.Owner = "" THEN DefaultOwner ELSE entity.Owner,
          Component |-> IF entity.Name = "" THEN DefaultComponent ELSE entity.Name,
          JiraProject |-> entity.JiraProjectKey,
          JiraLabel |-> entity.JiraLabel]

PropertyNames == {"Owner", "Component", "JiraProject", "JiraLabel"}

diffProperties_JiraAlways(desired, current) ==
    \/ current["Owner"] # desired.Owner
    \/ current["Component"] # desired.Component
    \/ current["JiraProject"] # desired.JiraProject
    \/ current["JiraLabel"] # desired.JiraLabel

\* current is the repository's property map; a property that is not set
\* reads as "" (the zero value of a missing key of currentMap).
diffProperties(desired, current) ==
    IF current["Owner"] # desired.Owner THEN TRUE
    ELSE IF current["Component"] # desired.Component THEN TRUE
    ELSE IF desired.JiraProject # "" /\ current["JiraProject"] # desired.JiraProject THEN TRUE
    ELSE IF desired.JiraLabel # "" /\ current["JiraLabel"] # desired.JiraLabel THEN TRUE
    ELSE FALSE

desiredToPropertyValues_AllFour(desired) ==
    << [PropertyName |-> "Owner", Value |-> desired.Owner],
       [PropertyName |-> "Component", Value |-> desired.Component],
       [PropertyName |-> "JiraProject", Value |-> desired.JiraProject],
       [PropertyName |-> "JiraLabel", Value |-> desired.JiraLabel] >>

desiredToPropertyValues(desired) ==
    << [PropertyName |-> "Owner", Value |-> desired.Owner],
       [PropertyName |-> "Component", Value |-> desired.Component] >>
    \o (IF desired.JiraProject # ""
        THEN << [PropertyName |-> "JiraProject", Value |-> desired.JiraProject] >>
        ELSE << >>)
    \o (IF desired.JiraLabel # ""
        THEN << [PropertyName |-> "JiraLabel", Value |-> desired.JiraLabel] >>
        ELSE << >>)

\* ------------------------------------------------- engine: pure functions
shouldSkip_ArchivedOnly(e, repo) == e.skipArchived /\ repo.Archived

shouldSkip(e, repo) ==
    IF e.skipArchived /\ repo.Archived THEN TRUE
    ELSE IF e.skipForks /\ repo.Fork THEN TRUE
    ELSE IF ~repo.HasBranch \/ repo.DefaultRef = "" THEN TRUE
    ELSE FALSE

checkFileExists_FirstPathOnly(files, rule, p) ==
    IF rule.Paths[p] \in files THEN "exists" ELSE "missing"

\* checkFileExists, engine.go 176-188: the round of the loop for the p-th
\* candidate path, after its GetContents call has answered: the file exists,
\* the loop goes on to the next path, or no path is left.
checkFileExists(files, rule, p) ==
    IF rule.Paths[p] \in files THEN "exists"
    ELSE IF p < Len(rule.Paths) THEN "next"
    ELSE "missing"

hasExistingPR_CaseSensitive(openPRs, rule) ==
    \E i \in 1..Len(openPRs) :
        \E j \in 1..Len(rule.PRSearchTerms) :
            \/ Contains(Chars(openPRs[i].Title), Chars(rule.PRSearchTerms[j]))
            \/ Contains(Chars(openPRs[i].Head), Chars(rule.PRSearchTerms[j]))

hasExistingPR(openPRs, rule) ==
    \E i \in 1..Len(openPRs) :
        LET titleLower == ToLower(Chars(openPRs[i].Title))
            branchLower == ToLower(Chars(openPRs[i].Head))
        IN \E j \in 1..Len(rule.PRSearchTerms) :
               LET termLower == ToLower(Chars(rule.PRSearchTerms[j]))
               IN Contains(titleLower, termLower) \/ Contains(branchLower, termLower)

findPropertiesPR(openPRs, branchName) ==
    \E i \in 1..Len(openPRs) : openPRs[i].Head = branchName

findOurPR(openPRs) == findPropertiesPR(openPRs, BranchName)

\* ------------------------------------------------------------ state
VARIABLES
    engine,        \* Engine fields: skipForks, skipArchived, dryRun, customPropertiesMode
    repo,          \* platform: the repository descriptor
    files,         \* platform: paths present on the default branch
    fileContents,  \* platform: content of the catalog manifests ("" = absent)
    refs,          \* platform: branches, each [Name, SHA, Files]
    pulls,         \* platform: open pull requests, each [Title, Head]
    props,         \* platform: custom property values of the repository
    pc,            \* per worker: the next platform call of its CheckRepo
    local,         \* per worker: the local variables of its CheckRepo
    calls,         \* per worker: write calls issued by its current pass
    start,         \* per worker: branches and open heads when the pass began
    passes,        \* number of passes started
    faults,        \* number of transient platform failures injected
    external,      \* number of changes made by users of the repository
    settled        \* repository state left by the last undisturbed pass

engineVars == <<engine, repo, files, fileContents, refs, pulls, props,
                pc, local, calls, start, passes, faults, external, settled>>

QueueSize == 2
MaxJobs == 4
StopCallers == {1}

\* The work queue (internal/checker/queue.go).
VARIABLES
    ch,              \* q.ch: the buffered jobs, oldest first
    closed,          \* q.ch has been closed
    stopped,         \* q.stopped
    cancelFn,        \* q.cancelFn is set (Start has run)
    rootCancelled,   \* the context handed to Start is cancelled
    workerCancelled, \* cancelFn has been called
    wg,              \* q.wg: workers that have not returned
    wpc,             \* per worker: where it is in worker / processJob
    wjob,            \* per worker: the job it holds (0 = none)
    stoppc,          \* per caller of Stop: where it is in Stop
    panicked,        \* the process died of a run-time panic
    nextJob,         \* jobs offered to Enqueue so far
    accepted,        \* jobs for which Enqueue returned nil
    processed,       \* jobs handed to engine.CheckRepo
    dropped,         \* jobs a worker received and discarded
    beforeStop,      \* per caller of Stop: jobs accepted before its call
    inFlight,        \* per caller of Stop: workers inside CheckRepo at its call
    afterCancel,     \* jobs received while the root context was cancelled
    enqResult,       \* what the last Enqueue returned ("" before the first)
    received         \* the jobs in the order workers received them

queueVars == <<ch, closed, stopped, cancelFn, rootCancelled, workerCancelled,
               wg, wpc, wjob, stoppc, panicked, nextJob, accepted, processed,
               dropped, beforeStop, inFlight, afterCancel, enqResult,
               received>>

MaxCalls == 2
MaxTime == 2
ThresholdPct == 10
Second == 2
StatusOK == 200
StatusForbidden == 403

\* The rate-limit transport (internal/github/github.go) and one caller of
\* RoundTrip.  Time is counted in ticks, Second ticks to the second.
VARIABLES
    remaining,       \* t.remaining
    limit,           \* t.limit
    resetAt,         \* t.resetAt, in ticks
    now,             \* the clock, in ticks
    rpc,             \* where the caller is in RoundTrip
    rcalls,          \* RoundTrip calls begun so far
    sent,            \* requests of this call handed to t.next
    resp,            \* the first response of this call
    firstBody,       \* the body of the first response: none, open, returned, closed
    delay,           \* the duration of the sleep in progress
    ctxDone,         \* req.Context() is cancelled
    result,          \* what RoundTrip returned
    pre,             \* what waitIfNeeded read and decided in this call
    lastResp,        \* the response updateFromResponse saw last
    prev,            \* the rate-limit state before that update
    cancelledAsleep, \* the context was cancelled during a sleep of this call
    sentAtCancel     \* requests sent when that happened

transportVars == <<remaining, limit, resetAt, now, rpc, rcalls, sent, resp,
                   firstBody, delay, ctxDone, result, pre, lastResp, prev,
                   cancelledAsleep, sentAtCancel>>

\* Webhook handler (internal/webhook) and scheduler (internal/scheduler), the
\* two producers of the queue.
MaxRequests == 2
MaxRepos == 2
MaxSweeps == 3
Installations == 2
DefaultWorkerCount == 5
DefaultQueueSize == 1000
DefaultIntervalHours == 168
StatusNoContent == 204
StatusBadRequest == 400
StatusUnauthorized == 401
StatusMethodNotAllowed == 405

VARIABLES
    whpc,            \* where ServeHTTP is: idle, enqueue, responded
    whreq,           \* the request being served
    whpending,       \* repositories of the event still to be enqueued
    whoffered,       \* the jobs this request handed to Enqueue, with the results
    whlogged,        \* the jobs whose Enqueue error this request logged
    whstatus,        \* the status code written (0 = none yet)
    whbody,          \* the response body written
    whcount,         \* requests served so far
    spc,             \* where Scheduler.Start is: notStarted, reconcile, select, returned
    tickReady,       \* a tick waits in ticker.C
    spending,        \* eligible repositories the running sweep has yet to offer
    slisted,         \* the eligible repositories the running sweep listed
    sinstalls,       \* installations the running sweep has yet to list
    soffered,        \* the jobs the running sweep handed to Enqueue, with the results
    sweeps,          \* sweeps (reconcileAll calls) begun so far
    lateSweeps       \* sweeps begun after the context was cancelled

webhookVars == <<whpc, whreq, whpending, whoffered, whlogged, whstatus, whbody, whcount>>

schedulerVars == <<spc, tickReady, spending, slisted, sinstalls, soffered, sweeps, lateSweeps>>

VARIABLES
    environ,         \* the environment variables of the process
    cpc,             \* where main is: start, loaded, exited, running
    cfg,             \* the *Config that Load returned
    cfgErr           \* the error that Load returned, "" for nil

configVars == <<environ, cpc, cfg, cfgErr>>

\* Queue.Enqueue and Queue.Stop step by step under q.mu, with several callers.
VARIABLES
    qmu,             \* q.mu: "free" or the caller that holds it
    epc,             \* where each caller of Enqueue is
    ejob,            \* the job each caller of Enqueue offers
    eres,            \* what Enqueue returned to each caller last
    kpc,             \* where each caller of Stop is
    sendOnClosed     \* a send on the closed q.ch has happened

lockVars == <<qmu, epc, ejob, eres, kpc, sendOnClosed>>

\* waitIfNeeded and updateFromResponse step by step under t.mu, with several
\* requests in RoundTrip at once.
VARIABLES
    tmu,             \* t.mu: 0 when free, or the request that holds it
    tpc,             \* where each request is in RoundTrip
    tresp            \* the response each request got from t.next last

mutexVars == <<tmu, tpc, tresp>>

\* GitHubClient.getInstallClient step by step under c.mu, with several workers.
VARIABLES
    cmu,             \* c.mu: 0 when free, or the worker that holds it
    gpc,             \* where each worker is in CreateInstallationClient
    gid,             \* the installation each worker asks for
    got,             \* the *gh.Client each worker was given, 0 for none
    installClients,  \* c.installClients: installation -> client, 0 for no entry
    created          \* the clients created so far: installation and transport of each

cacheVars == <<cmu, gpc, gid, got, installClients, created>>

startupVars == <<configVars, lockVars, mutexVars, cacheVars>>

frontVars == <<webhookVars, schedulerVars, startupVars>>

vars == <<engineVars, queueVars, transportVars, frontVars>>

\* ------------------------------------------------- platform operations
HasRef(rs, name) == \E i \in 1..Len(rs) : rs[i].Name = name

GetBranchSHA(rs, name) ==
    IF HasRef(rs, name)
    THEN rs[CHOOSE i \in 1..Len(rs) : rs[i].Name = name].SHA
    ELSE ""

HasOpenPull(ps, head) == \E i \in 1..Len(ps) : ps[i].Head = head

\* Git.CreateRef: accepted when no ref of that name exists.
CreateBranchAccepted(rs, name) == ~HasRef(rs, name)

CreateBranchEffect(rs, name, baseSHA) ==
    Append(rs, [Name |-> name, SHA |-> baseSHA, Files |-> {}])

\* Git.DeleteRef: accepted when the ref exists; the platform closes the
\* open pull requests whose head is the deleted branch.
DeleteBranchAccepted(rs, name) == HasRef(rs, name)

DeleteBranchRefs(rs, name) ==
    LET Other(r) == r.Name # name IN SelectSeq(rs, Other)

DeleteBranchPulls(ps, name) ==
    LET Other(p) == p.Head # name IN SelectSeq(ps, Other)

\* Repositories.CreateFile with Message, Content and Branch only (no SHA):
\* accepted when the branch exists and the path is not yet on it.
FileOnBranch(rs, fs, name, path) ==
    \E i \in 1..Len(rs) : rs[i].Name = name /\ (path \in fs \/ path \in rs[i].Files)

CreateOrUpdateFileAccepted(rs, fs, name, path) ==
    HasRef(rs, name) /\ ~FileOnBranch(rs, fs, name, path)

CreateOrUpdateFileEffect(rs, name, path) ==
    [i \in 1..Len(rs) |->
        IF rs[i].Name = name
        THEN [rs[i] EXCEPT !.SHA = "commit", !.Files = @ \cup {path}]
        ELSE rs[i]]

\* PullRequests.Create: accepted when the head branch exists and no open
\* pull request has that head.
CreatePullRequestAccepted(rs, ps, head) ==
    HasRef(rs, head) /\ ~HasOpenPull(ps, head)

CreatePullRequestEffect(ps, title, head) ==
    Append(ps, [Title |-> title, Head |-> head])

SetCustomPropertyValuesEffect_Ignored(current, values) == current

\* Repositories.CreateOrUpdateCustomProperties: sets the listed values.
SetCustomPropertyValuesEffect(current, values) ==
    [n \in PropertyNames |->
        IF \E i \in 1..Len(values) : values[i].PropertyName = n
        THEN values[CHOOSE i \in 1..Len(values) : values[i].PropertyName = n].Value
        ELSE current[n]]

\* ------------------------------------------------------ initial states
NoLocal ==
    [openPRs |-> <<>>, rule |-> 0, path |-> 0, missing |-> <<>>, branchSHA |-> "", existingPR |-> FALSE,
     idx |-> 0, catalogFound |-> FALSE, content |-> "", desired |-> defaults,
     needsUpdate |-> FALSE, values |-> <<>>, deletedOpen |-> FALSE, afterPartial |-> FALSE, err |-> "", metaErr |-> "",
     faulted |-> FALSE, undisturbed |-> TRUE, fromSettled |-> FALSE]

NoStart == [refs |-> {}, heads |-> {}, deleted |-> {}, compliant |-> FALSE]

MainRef == [Name |-> "main", SHA |-> "sha1", Files |-> {}]

ThirdPartyCodeowners == [Title |-> "Add CODEOWNERS file", Head |-> "add-codeowners"]

\* Pull requests that mention a rule in the title only, and in the head
\* branch only, in another case than the search term's.
ThirdPartyDependabot == [Title |-> "Enable Dependabot", Head |-> "deps/update"]
ThirdPartyBranch == [Title |-> "Update config", Head |-> "feature/CodeOwners"]

Engines(modes) ==
    [skipForks : {TRUE}, skipArchived : {TRUE}, dryRun : BOOLEAN,
     customPropertiesMode : modes]

NormalRepo == [Archived |-> FALSE, Fork |-> FALSE, HasBranch |-> TRUE, DefaultRef |-> "main"]

SkippedRepos ==
    { [NormalRepo EXCEPT !.Archived = TRUE],
      [NormalRepo EXCEPT !.Fork = TRUE],
      [NormalRepo EXCEPT !.HasBranch = FALSE, !.DefaultRef = ""] }

AllPresent == {"docs/CODEOWNERS", ".github/dependabot.yaml"}
OnlyDependabot == {".github/dependabot.yml"}

NoCatalog == [p \in {CatalogYaml, CatalogYml} |-> ""]
YamlCatalog == [NoCatalog EXCEPT ![CatalogYaml] = ValidCatalogInfo]
YmlCatalog == [NoCatalog EXCEPT ![CatalogYml] = CatalogInfoNoJira]

Unset == [n \in PropertyNames |-> ""]
OldProps ==
    [Unset EXCEPT !["Owner"] = "platform-team", !["Component"] = "my-service",
                  !["JiraProject"] = "OLD"]

\* The catalog-info pull request of an earlier pass, still open, and its branch.
OpenCatalogPull == [Title |-> CatalogInfoPRTitle, Head |-> CatalogInfoBranchName]

CatalogRef == [Name |-> CatalogInfoBranchName, SHA |-> "sha1", Files |-> {CatalogYaml}]

UpToDate ==
    [Unset EXCEPT !["Owner"] = "platform-team", !["Component"] = "my-service",
                  !["JiraProject"] = "PROJ", !["JiraLabel"] = "my-service"]

\* The repositories and engine configurations a behaviour may begin with:
\* file rules alone (with and without a third-party pull request), metadata
\* reconciliation alone in both modes (no manifest, a manifest, stale
\* properties), both concerns together with the properties already in sync
\* or in dry-run, a repository whose catalog-info pull request is open while
\* its properties are not set, and the repositories shouldSkip turns away.
InitScenarios ==
    [engine : Engines({""}), repo : {NormalRepo}, files : {{}, OnlyDependabot, AllPresent},
     pulls : {<<>>, <<ThirdPartyCodeowners>>, <<ThirdPartyDependabot, ThirdPartyBranch>>},
     fileContents : {NoCatalog}, props : {Unset}]
    \cup
    [engine : Engines({"github-action", "api"}), repo : {NormalRepo},
     files : {AllPresent}, pulls : {<<>>},
     fileContents : {NoCatalog, YamlCatalog}, props : {Unset}]
    \cup
    [engine : Engines({"github-action", "api"}), repo : {NormalRepo},
     files : {AllPresent}, pulls : {<<>>},
     fileContents : {YamlCatalog, YmlCatalog}, props : {OldProps}]
    \cup
    [engine : Engines({"github-action", "api"}), repo : {NormalRepo},
     files : {OnlyDependabot}, pulls : {<<>>},
     fileContents : {YamlCatalog}, props : {UpToDate}]
    \cup
    [engine : {e \in Engines({"github-action", "api"}) : e.dryRun}, repo : {NormalRepo},
     files : {OnlyDependabot}, pulls : {<<>>},
     fileContents : {NoCatalog}, props : {Unset}]
    \cup
    [engine : Engines({"api"}), repo : {NormalRepo},
     files : {AllPresent}, pulls : {<<>>},
     fileContents : {YmlCatalog}, props : {Unset}]
    \cup
    [engine : Engines({"api"}), repo : {NormalRepo},
     files : {AllPresent}, pulls : {<<OpenCatalogPull>>},
     fileContents : {NoCatalog}, props : {Unset}]
    \cup
    [engine : Engines({"api"}), repo : SkippedRepos, files : {{}},
     pulls : {<<>>}, fileContents : {NoCatalog}, props : {Unset}]

EngineInit ==
    /\ \E s \in InitScenarios :
          /\ engine = s.engine
          /\ repo = s.repo
          /\ files = s.files
          /\ fileContents = s.fileContents
          /\ pulls = s.pulls
          /\ props = s.props
    /\ refs = IF ~repo.HasBranch THEN <<>>
              ELSE IF HasOpenPull(pulls, CatalogInfoBranchName) THEN <<MainRef, CatalogRef>>
              ELSE <<MainRef>>
    /\ pc = [w \in Workers |-> "idle"]
    /\ local = [w \in Workers |-> NoLocal]
    /\ calls = [w \in Workers |-> <<>>]
    /\ start = [w \in Workers |-> NoStart]
    /\ passes = 0
    /\ faults = 0
    /\ external = 0
    /\ settled = [valid |-> FALSE, refs |-> <<>>, pulls |-> <<>>, props |-> Unset]

\* --------------------------------------------------------- CheckRepo
Active(w) == pc[w] \notin {"idle", "done"}

RefNames(rs) == {rs[i].Name : i \in 1..Len(rs)}
OpenHeads(ps) == {ps[i].Head : i \in 1..Len(ps)}

Goto(w, label) == pc' = [pc EXCEPT ![w] = label]

Issue(w, op, target, ok) ==
    calls' = [calls EXCEPT ![w] = Append(@, [op |-> op, target |-> target, ok |-> ok])]

\* A transient platform failure of the call worker w is about to make.
Fault(w) ==
    /\ faults < MaxFaults
    /\ faults' = faults + 1

\* CheckRepo returns err: the job is over.
Return(w, err) ==
    /\ Goto(w, "done")
    /\ local' = [local EXCEPT ![w].err = err]

ReturnFault(w, err) ==
    /\ Goto(w, "done")
    /\ local' = [local EXCEPT ![w].err = err, ![w].faulted = TRUE]

\* CheckCustomProperties returns err to checkCustomPropertiesIfEnabled, which
\* logs it and returns nil.
ReturnMeta(w, err) ==
    /\ Goto(w, "done")
    /\ local' = [local EXCEPT ![w].metaErr = err]

ReturnMetaFault_Propagates(w, err) ==
    /\ Goto(w, "done")
    /\ local' = [local EXCEPT ![w].metaErr = err, ![w].err = err, ![w].faulted = TRUE]

ReturnMetaFault(w, err) ==
    /\ Goto(w, "done")
    /\ local' = [local EXCEPT ![w].metaErr = err, ![w].faulted = TRUE]

\* The entry of checkCustomPropertiesIfEnabled.
MetaEntry == IF engine.customPropertiesMode = "" THEN "done" ELSE "GetFileContentYaml"

NotSettled == [valid |-> FALSE, refs |-> <<>>, pulls |-> <<>>, props |-> [n \in PropertyNames |-> ""]]

Snapshot(rs, ps, pr) ==
    [valid |-> TRUE, refs |-> rs, pulls |-> ps, props |-> pr]

\* settled: the repository as the last pass left it, when that pass ran alone
\* and met no transient failure; a user's change unsettles it.
Settle ==
    settled' =
        IF external' # external THEN NotSettled
        ELSE IF \E w \in Workers : pc[w] # "done" /\ pc'[w] = "done"
        THEN LET w == CHOOSE v \in Workers : pc[v] # "done" /\ pc'[v] = "done" IN
             IF ~local'[w].faulted /\ local'[w].undisturbed
             THEN Snapshot(refs', pulls', props')
             ELSE NotSettled
        ELSE settled

\* What every step of the engine does besides its own effect.
Bookkeeping == Settle /\ UNCHANGED <<queueVars, transportVars, frontVars>>

\* The manifest CheckCustomProperties parses: catalog-info.yaml, else .yml.
CatalogContent ==
    IF fileContents[CatalogYaml] # "" THEN fileContents[CatalogYaml]
    ELSE fileContents[CatalogYml]

\* Every enabled rule has a candidate path on the default branch and the
\* managed properties match the values the manifest asks for.
Compliant ==
    /\ \A i \in 1..Len(EnabledRules) :
          \E j \in 1..Len(EnabledRules[i].Paths) : EnabledRules[i].Paths[j] \in files
    /\ \A n \in {"Owner", "Component"} :
          props[n] = (IF n = "Owner" THEN Parse(CatalogContent).Owner
                      ELSE Parse(CatalogContent).Component)
    /\ Parse(CatalogContent).JiraProject \in {"", props["JiraProject"]}
    /\ Parse(CatalogContent).JiraLabel \in {"", props["JiraLabel"]}

\* A pass that has returned with a transient failure after it created the
\* add-missing-files branch and before it opened the pull request.
PartialPass(v) ==
    /\ pc[v] = "done"
    /\ local[v].faulted
    /\ \E k \in 1..Len(calls[v]) :
          calls[v][k] = [op |-> "CreateBranch", target |-> BranchName, ok |-> TRUE]
    /\ \A k \in 1..Len(calls[v]) : ~(calls[v][k].op = "CreatePullRequest" /\ calls[v][k].ok)

\* createOrUpdatePR, engine.go 226: a branch without an open pull request of
\* ours is left over from an earlier pass.
OurBranchIsStale_Never(branchSHA, existingPR) == FALSE

OurBranchIsStale(branchSHA, existingPR) == branchSHA # "" /\ ~existingPR

\* A worker takes a job for the repository and calls CheckRepo.  The workers
\* are interchangeable goroutines, so the lowest-numbered free one takes it;
\* the frames of the calls that have returned are gone.
StartPass(w) ==
    /\ ~Active(w)
    /\ \A v \in Workers : v < w => Active(v)
    /\ passes < MaxPasses
    /\ passes' = passes + 1
    /\ pc' = [v \in Workers |->
                 IF v = w THEN "GetRepository"
                 ELSE IF Active(v) THEN pc[v] ELSE "idle"]
    /\ local' = [v \in Workers |->
                    IF v = w
                    THEN [NoLocal EXCEPT
                            !.undisturbed = \A u \in Workers \ {w} : ~Active(u),
                            !.afterPartial = \E u \in Workers : PartialPass(u),
                            !.fromSettled = settled.valid]
                    ELSE IF Active(v) THEN [local[v] EXCEPT !.undisturbed = FALSE]
                    ELSE NoLocal]
    /\ calls' = [v \in Workers |-> IF v # w /\ Active(v) THEN calls[v] ELSE <<>>]
    /\ start' = [v \in Workers |->
                    IF v = w
                    THEN [refs |-> RefNames(refs), heads |-> OpenHeads(pulls),
                          deleted |-> {}, compliant |-> Compliant]
                    ELSE IF Active(v) THEN start[v] ELSE NoStart]
    /\ UNCHANGED <<engine, repo, files, fileContents, refs, pulls, props, faults, external>>
    /\ Bookkeeping

GetRepository(w) ==
    /\ pc[w] = "GetRepository"
    /\ \/ /\ Fault(w)
          /\ ReturnFault(w, "getting repository info")
       \/ /\ UNCHANGED faults
          /\ IF shouldSkip(engine, repo)
             THEN Return(w, "")
             ELSE Goto(w, "ListOpenPullRequests") /\ UNCHANGED local
    /\ UNCHANGED <<engine, repo, files, fileContents, refs, pulls, props,
                   calls, start, passes, external>>
    /\ Bookkeeping

\* CheckRepo, engine.go 84-95: the switch on the missing set.
AfterFindMissingFiles(missing) ==
    IF Len(missing) = 0 THEN MetaEntry
    ELSE IF engine.dryRun THEN MetaEntry
    ELSE "GetOurBranchSHA"

ListOpenPullRequests(w) ==
    /\ pc[w] = "ListOpenPullRequests"
    /\ \/ /\ Fault(w)
          /\ ReturnFault(w, "listing open PRs")
       \/ /\ UNCHANGED faults
          /\ IF Len(EnabledRules) > 0
             THEN /\ Goto(w, "findMissingFiles")
                  /\ local' = [local EXCEPT ![w].openPRs = pulls,
                                               ![w].rule = 1, ![w].path = 1]
             ELSE /\ Goto(w, AfterFindMissingFiles(<<>>))
                  /\ local' = [local EXCEPT ![w].openPRs = pulls]
    /\ UNCHANGED <<engine, repo, files, fileContents, refs, pulls, props,
                   calls, start, passes, external>>
    /\ Bookkeeping

\* findMissingFiles at the end of the round for one rule, engine.go 127-149:
\* the next rule, or the return to CheckRepo and its switch.
NextRule(w, missing) ==
    IF local[w].rule < Len(EnabledRules)
    THEN /\ local' = [local EXCEPT ![w].rule = @ + 1, ![w].path = 1,
                                    ![w].missing = missing]
         /\ UNCHANGED pc
    ELSE /\ local' = [local EXCEPT ![w].rule = 0, ![w].path = 0,
                                    ![w].missing = missing]
         /\ Goto(w, AfterFindMissingFiles(missing))

\* findMissingFiles and checkFileExists, engine.go 127-149 and 176-188: one
\* client.GetContents call, for the candidate path the two loops have
\* reached, and what follows it up to the next call.
GetContents(w) ==
    /\ pc[w] = "findMissingFiles"
    /\ \/ /\ Fault(w)
          /\ ReturnFault(w, "checking file existence")
       \/ /\ UNCHANGED faults
          /\ LET rule == EnabledRules[local[w].rule]
                 exists == checkFileExists(files, rule, local[w].path)
             IN IF exists = "next"
                THEN /\ local' = [local EXCEPT ![w].path = @ + 1]
                     /\ UNCHANGED pc
                ELSE IF exists = "exists" THEN NextRule(w, local[w].missing)
                ELSE IF hasExistingPR(local[w].openPRs, rule)
                THEN NextRule(w, local[w].missing)
                ELSE NextRule(w, Append(local[w].missing, rule))
    /\ UNCHANGED <<engine, repo, files, fileContents, refs, pulls, props,
                   calls, start, passes, external>>
    /\ Bookkeeping

\* createOrUpdatePR, engine.go 216-226: branch lookup and findOurPR.
GetOurBranchSHA(w) ==
    /\ pc[w] = "GetOurBranchSHA"
    /\ \/ /\ Fault(w)
          /\ ReturnFault(w, "checking for existing branch")
       \/ /\ UNCHANGED faults
          /\ LET branchSHA == GetBranchSHA(refs, BranchName)
                 existingPR == findOurPR(local[w].openPRs)
             IN /\ local' = [local EXCEPT ![w].branchSHA = branchSHA,
                                          ![w].existingPR = existingPR]
                /\ IF OurBranchIsStale(branchSHA, existingPR)
                   THEN Goto(w, "DeleteOurBranch")
                   ELSE Goto(w, "GetBaseSHA")
    /\ UNCHANGED <<engine, repo, files, fileContents, refs, pulls, props,
                   calls, start, passes, external>>
    /\ Bookkeeping

\* Every pass in flight sees that the branch was deleted since it began.
NoteDeleted(name) ==
    start' = [v \in Workers |->
                 IF Active(v) THEN [start[v] EXCEPT !.deleted = @ \cup {name}]
                 ELSE start[v]]

\* createOrUpdatePR, engine.go 226-234: stale-branch deletion.
DeleteOurBranch(w) ==
    /\ pc[w] = "DeleteOurBranch"
    /\ \/ /\ Fault(w)
          /\ Issue(w, "DeleteBranch", BranchName, FALSE)
          /\ ReturnFault(w, "deleting stale branch")
          /\ UNCHANGED <<refs, pulls, start>>
       \/ /\ UNCHANGED faults
          /\ IF DeleteBranchAccepted(refs, BranchName)
             THEN /\ Issue(w, "DeleteBranch", BranchName, TRUE)
                  /\ refs' = DeleteBranchRefs(refs, BranchName)
                  /\ pulls' = DeleteBranchPulls(pulls, BranchName)
                  /\ NoteDeleted(BranchName)
                  /\ local' = [local EXCEPT ![w].branchSHA = "",
                                           ![w].deletedOpen = HasOpenPull(pulls, BranchName)]
                  /\ Goto(w, "GetBaseSHA")
             ELSE /\ Issue(w, "DeleteBranch", BranchName, FALSE)
                  /\ Return(w, "deleting stale branch")
                  /\ UNCHANGED <<refs, pulls, start>>
    /\ UNCHANGED <<engine, repo, files, fileContents, props, passes, external>>
    /\ Bookkeeping

\* createOrUpdatePR, engine.go 236-247: tip of the default branch.
BranchAbsent_Always(branchSHA) == TRUE

\* createOrUpdatePR, engine.go 247: the branch is created only when the
\* lookup found none or the stale one has been deleted.
BranchAbsent(branchSHA) == branchSHA = ""

GetBaseSHA(w) ==
    /\ pc[w] = "GetBaseSHA"
    /\ \/ /\ Fault(w)
          /\ ReturnFault(w, "getting default branch SHA")
       \/ /\ UNCHANGED faults
          /\ IF GetBranchSHA(refs, repo.DefaultRef) = ""
             THEN Return(w, "default branch has no SHA")
             ELSE /\ UNCHANGED local
                  /\ IF BranchAbsent(local[w].branchSHA)
                     THEN Goto(w, "CreateOurBranch")
                     ELSE Goto(w, "CreateOurFile")
    /\ UNCHANGED <<engine, repo, files, fileContents, refs, pulls, props,
                   calls, start, passes, external>>
    /\ Bookkeeping

\* createOrUpdatePR, engine.go 247-253.
CreateOurBranch(w) ==
    /\ pc[w] = "CreateOurBranch"
    /\ \/ /\ Fault(w)
          /\ Issue(w, "CreateBranch", BranchName, FALSE)
          /\ ReturnFault(w, "creating branch")
          /\ UNCHANGED refs
       \/ /\ UNCHANGED faults
          /\ IF CreateBranchAccepted(refs, BranchName)
             THEN /\ Issue(w, "CreateBranch", BranchName, TRUE)
                  /\ refs' = CreateBranchEffect(refs, BranchName,
                                                GetBranchSHA(refs, repo.DefaultRef))
                  /\ Goto(w, "CreateOurFile")
                  /\ UNCHANGED local
             ELSE /\ Issue(w, "CreateBranch", BranchName, FALSE)
                  /\ Return(w, "creating branch")
                  /\ UNCHANGED refs
    /\ UNCHANGED <<engine, repo, files, fileContents, pulls, props,
                   start, passes, external>>
    /\ Bookkeeping

\* createOrUpdatePR, engine.go 255-272: one iteration of the loop over the
\* missing rules; after the last one, the existingPR test.
CreateOurFile(w) ==
    /\ pc[w] = "CreateOurFile"
    /\ LET i == local[w].idx + 1
           path == local[w].missing[i].TargetPath
       IN \/ /\ Fault(w)
             /\ Issue(w, "CreateOrUpdateFile", path, FALSE)
             /\ ReturnFault(w, "creating file")
             /\ UNCHANGED refs
          \/ /\ UNCHANGED faults
             /\ IF CreateOrUpdateFileAccepted(refs, files, BranchName, path)
                THEN /\ Issue(w, "CreateOrUpdateFile", path, TRUE)
                     /\ refs' = CreateOrUpdateFileEffect(refs, BranchName, path)
                     /\ local' = [local EXCEPT ![w].idx = i]
                     /\ IF i < Len(local[w].missing) THEN UNCHANGED pc
                        ELSE IF ~local[w].existingPR THEN Goto(w, "CreateOurPullRequest")
                        ELSE Goto(w, MetaEntry)
                ELSE /\ Issue(w, "CreateOrUpdateFile", path, FALSE)
                     /\ Return(w, "creating file")
                     /\ UNCHANGED refs
    /\ UNCHANGED <<engine, repo, files, fileContents, pulls, props,
                   start, passes, external>>
    /\ Bookkeeping

\* createOrUpdatePR, engine.go 272-287, then the return into CheckRepo.
CreateOurPullRequest(w) ==
    /\ pc[w] = "CreateOurPullRequest"
    /\ \/ /\ Fault(w)
          /\ Issue(w, "CreatePullRequest", BranchName, FALSE)
          /\ ReturnFault(w, "creating PR")
          /\ UNCHANGED pulls
       \/ /\ UNCHANGED faults
          /\ IF CreatePullRequestAccepted(refs, pulls, BranchName)
             THEN /\ Issue(w, "CreatePullRequest", BranchName, TRUE)
                  /\ pulls' = CreatePullRequestEffect(pulls, PRTitle, BranchName)
                  /\ Goto(w, MetaEntry)
                  /\ UNCHANGED local
             ELSE /\ Issue(w, "CreatePullRequest", BranchName, FALSE)
                  /\ Return(w, "creating PR")
                  /\ UNCHANGED pulls
    /\ UNCHANGED <<engine, repo, files, fileContents, refs, props,
                   start, passes, external>>
    /\ Bookkeeping

\* ------------------------------------------------ CheckCustomProperties
\* properties.go 39-45: catalog-info.yaml.
GetFileContentYaml(w) ==
    /\ pc[w] = "GetFileContentYaml"
    /\ \/ /\ Fault(w)
          /\ ReturnMetaFault(w, "reading catalog-info.yaml")
       \/ /\ UNCHANGED faults
          /\ LET content == fileContents[CatalogYaml] IN
             /\ local' = [local EXCEPT ![w].content = content,
                                       ![w].catalogFound = (content # "")]
             /\ IF content = "" THEN Goto(w, "GetFileContentYml")
                ELSE Goto(w, "GetCustomPropertyValues")
    /\ UNCHANGED <<engine, repo, files, fileContents, refs, pulls, props,
                   calls, start, passes, external>>
    /\ Bookkeeping

\* properties.go 46-53: catalog-info.yml.
GetFileContentYml(w) ==
    /\ pc[w] = "GetFileContentYml"
    /\ \/ /\ Fault(w)
          /\ ReturnMetaFault(w, "reading catalog-info.yml")
       \/ /\ UNCHANGED faults
          /\ LET content == fileContents[CatalogYml] IN
             /\ local' = [local EXCEPT ![w].content = content,
                                       ![w].catalogFound = (content # "")]
             /\ Goto(w, "GetCustomPropertyValues")
    /\ UNCHANGED <<engine, repo, files, fileContents, refs, pulls, props,
                   calls, start, passes, external>>
    /\ Bookkeeping

AfterDiff_NoPRCheck(w) ==
    CASE engine.customPropertiesMode = "github-action" ->
           IF engine.dryRun THEN "done" ELSE "CleanupPropertiesBranch"
      [] engine.customPropertiesMode = "api" ->
           IF engine.dryRun THEN "done" ELSE "SetCustomPropertyValues"
      [] OTHER -> "done"

AfterDiff_NoDryRun(w) ==
    CASE engine.customPropertiesMode = "github-action" ->
           IF findPropertiesPR(local[w].openPRs, PropertiesBranchName) THEN "done"
           ELSE "CleanupPropertiesBranch"
      [] engine.customPropertiesMode = "api" -> "SetCustomPropertyValues"
      [] OTHER -> "done"

AfterDiff_DirectWrite(w) ==
    IF engine.dryRun THEN "done" ELSE "SetCustomPropertyValues"

\* The step after diffProperties reported a difference: the switch on the
\* mode, the existing-PR test of handleGHAMode and the dry-run tests.
AfterDiff(w) ==
    CASE engine.customPropertiesMode = "github-action" ->
           IF findPropertiesPR(local[w].openPRs, PropertiesBranchName) THEN "done"
           ELSE IF engine.dryRun THEN "done"
           ELSE "CleanupPropertiesBranch"
      [] engine.customPropertiesMode = "api" ->
           IF engine.dryRun THEN "done" ELSE "SetCustomPropertyValues"
      [] OTHER -> "done"

StopsAfterDiff_Never(needsUpdate) == FALSE

\* CheckCustomProperties, properties.go 66-75: nothing to do when
\* diffProperties found no difference.
StopsAfterDiff(needsUpdate) == ~needsUpdate

\* properties.go 55-86: Parse, GetCustomPropertyValues, diffProperties.
GetCustomPropertyValues(w) ==
    /\ pc[w] = "GetCustomPropertyValues"
    /\ \/ /\ Fault(w)
          /\ ReturnMetaFault(w, "reading custom properties")
       \/ /\ UNCHANGED faults
          /\ LET desired == Parse(local[w].content)
                 needsUpdate == diffProperties(desired, props)
             IN /\ local' = [local EXCEPT ![w].desired = desired,
                                          ![w].needsUpdate = needsUpdate]
                /\ IF StopsAfterDiff(needsUpdate) THEN Goto(w, "done") ELSE Goto(w, AfterDiff(w))
    /\ UNCHANGED <<engine, repo, files, fileContents, refs, pulls, props,
                   calls, start, passes, external>>
    /\ Bookkeeping

\* handleAPIMode, properties.go 187-202, and the entry of createCatalogInfoPR
\* (213-223).
SetCustomPropertyValues(w) ==
    /\ pc[w] = "SetCustomPropertyValues"
    /\ LET values == desiredToPropertyValues(local[w].desired) IN
       \/ /\ Fault(w)
          /\ Issue(w, "SetCustomPropertyValues", "properties", FALSE)
          /\ Goto(w, "done")
          /\ local' = [local EXCEPT ![w].values = values,
                                    ![w].metaErr = "setting custom properties",
                                    ![w].faulted = TRUE]
          /\ UNCHANGED props
       \/ /\ UNCHANGED faults
          /\ local' = [local EXCEPT ![w].values = values]
          /\ Issue(w, "SetCustomPropertyValues", "properties", TRUE)
          /\ props' = SetCustomPropertyValuesEffect(props, values)
          /\ IF local[w].catalogFound THEN Goto(w, "done")
             ELSE IF findPropertiesPR(local[w].openPRs, CatalogInfoBranchName)
             THEN Goto(w, "done")
             ELSE IF engine.dryRun THEN Goto(w, "done")
             ELSE Goto(w, "CleanupCatalogBranch")
    /\ UNCHANGED <<engine, repo, files, fileContents, refs, pulls,
                   start, passes, external>>
    /\ Bookkeeping

BranchIsStale_Never(branchSHA) == FALSE

\* cleanupStaleBranch, properties.go 288: the branch exists, so it is stale.
BranchIsStale(branchSHA) == branchSHA # ""

\* cleanupStaleBranch, properties.go 278-299: GetBranchSHA of the branch.
CleanupLookup(w, branchName, deleteLabel, baseLabel) ==
    \/ /\ Fault(w)
       /\ ReturnMetaFault(w, "checking for existing branch")
    \/ /\ UNCHANGED faults
       /\ LET branchSHA == GetBranchSHA(refs, branchName) IN
          /\ local' = [local EXCEPT ![w].branchSHA = branchSHA]
          /\ IF BranchIsStale(branchSHA) THEN Goto(w, deleteLabel) ELSE Goto(w, baseLabel)

\* cleanupStaleBranch, properties.go 288-296: DeleteBranch.
CleanupDelete(w, branchName, baseLabel) ==
    \/ /\ Fault(w)
       /\ Issue(w, "DeleteBranch", branchName, FALSE)
       /\ ReturnMetaFault(w, "deleting stale branch")
       /\ UNCHANGED <<refs, pulls, start>>
    \/ /\ UNCHANGED faults
       /\ IF DeleteBranchAccepted(refs, branchName)
          THEN /\ Issue(w, "DeleteBranch", branchName, TRUE)
               /\ refs' = DeleteBranchRefs(refs, branchName)
               /\ pulls' = DeleteBranchPulls(pulls, branchName)
               /\ NoteDeleted(branchName)
               /\ Goto(w, baseLabel)
               /\ local' = [local EXCEPT ![w].deletedOpen = HasOpenPull(pulls, branchName)]
          ELSE /\ Issue(w, "DeleteBranch", branchName, FALSE)
               /\ ReturnMeta(w, "deleting stale branch")
               /\ UNCHANGED <<refs, pulls, start>>

\* GetBranchSHA of the default branch and the empty-SHA test.
MetaBase(w, createLabel) ==
    \/ /\ Fault(w)
       /\ ReturnMetaFault(w, "getting default branch SHA")
    \/ /\ UNCHANGED faults
       /\ IF GetBranchSHA(refs, repo.DefaultRef) = ""
          THEN ReturnMeta(w, "default branch has no SHA")
          ELSE Goto(w, createLabel) /\ UNCHANGED local

MetaCreateBranch(w, branchName, fileLabel) ==
    \/ /\ Fault(w)
       /\ Issue(w, "CreateBranch", branchName, FALSE)
       /\ ReturnMetaFault(w, "creating branch")
       /\ UNCHANGED refs
    \/ /\ UNCHANGED faults
       /\ IF CreateBranchAccepted(refs, branchName)
          THEN /\ Issue(w, "CreateBranch", branchName, TRUE)
               /\ refs' = CreateBranchEffect(refs, branchName,
                                             GetBranchSHA(refs, repo.DefaultRef))
               /\ Goto(w, fileLabel)
               /\ UNCHANGED local
          ELSE /\ Issue(w, "CreateBranch", branchName, FALSE)
               /\ ReturnMeta(w, "creating branch")
               /\ UNCHANGED refs

MetaCreateFile(w, branchName, path, pullLabel) ==
    \/ /\ Fault(w)
       /\ Issue(w, "CreateOrUpdateFile", path, FALSE)
       /\ ReturnMetaFault(w, "creating file")
       /\ UNCHANGED refs
    \/ /\ UNCHANGED faults
       /\ IF CreateOrUpdateFileAccepted(refs, files, branchName, path)
          THEN /\ Issue(w, "CreateOrUpdateFile", path, TRUE)
               /\ refs' = CreateOrUpdateFileEffect(refs, branchName, path)
               /\ Goto(w, pullLabel)
               /\ UNCHANGED local
          ELSE /\ Issue(w, "CreateOrUpdateFile", path, FALSE)
               /\ ReturnMeta(w, "creating file")
               /\ UNCHANGED refs

MetaCreatePullRequest(w, title, branchName) ==
    \/ /\ Fault(w)
       /\ Issue(w, "CreatePullRequest", branchName, FALSE)
       /\ ReturnMetaFault(w, "creating PR")
       /\ UNCHANGED pulls
    \/ /\ UNCHANGED faults
       /\ IF CreatePullRequestAccepted(refs, pulls, branchName)
          THEN /\ Issue(w, "CreatePullRequest", branchName, TRUE)
               /\ pulls' = CreatePullRequestEffect(pulls, title, branchName)
               /\ Goto(w, "done")
               /\ UNCHANGED local
          ELSE /\ Issue(w, "CreatePullRequest", branchName, FALSE)
               /\ ReturnMeta(w, "creating PR")
               /\ UNCHANGED pulls

\* handleGHAMode, properties.go 113-165.
CleanupPropertiesBranch(w) ==
    /\ pc[w] = "CleanupPropertiesBranch"
    /\ CleanupLookup(w, PropertiesBranchName, "DeletePropertiesBranch", "PropertiesBaseSHA")
    /\ UNCHANGED <<engine, repo, files, fileContents, refs, pulls, props,
                   calls, start, passes, external>>
    /\ Bookkeeping

DeletePropertiesBranch(w) ==
    /\ pc[w] = "DeletePropertiesBranch"
    /\ CleanupDelete(w, PropertiesBranchName, "PropertiesBaseSHA")
    /\ UNCHANGED <<engine, repo, files, fileContents, props, passes, external>>
    /\ Bookkeeping

PropertiesBaseSHA(w) ==
    /\ pc[w] = "PropertiesBaseSHA"
    /\ MetaBase(w, "CreatePropertiesBranch")
    /\ UNCHANGED <<engine, repo, files, fileContents, refs, pulls, props,
                   calls, start, passes, external>>
    /\ Bookkeeping

CreatePropertiesBranch(w) ==
    /\ pc[w] = "CreatePropertiesBranch"
    /\ MetaCreateBranch(w, PropertiesBranchName, "CreateWorkflowFile")
    /\ UNCHANGED <<engine, repo, files, fileContents, pulls, props,
                   start, passes, external>>
    /\ Bookkeeping

CreateWorkflowFile(w) ==
    /\ pc[w] = "CreateWorkflowFile"
    /\ MetaCreateFile(w, PropertiesBranchName, WorkflowPath, "CreatePropertiesPullRequest")
    /\ UNCHANGED <<engine, repo, files, fileContents, pulls, props,
                   start, passes, external>>
    /\ Bookkeeping

CreatePropertiesPullRequest(w) ==
    /\ pc[w] = "CreatePropertiesPullRequest"
    /\ MetaCreatePullRequest(w, PropertiesPRTitle, PropertiesBranchName)
    /\ UNCHANGED <<engine, repo, files, fileContents, refs, props,
                   start, passes, external>>
    /\ Bookkeeping

\* createCatalogInfoPR, properties.go 225-274.
CleanupCatalogBranch(w) ==
    /\ pc[w] = "CleanupCatalogBranch"
    /\ CleanupLookup(w, CatalogInfoBranchName, "DeleteCatalogBranch", "CatalogBaseSHA")
    /\ UNCHANGED <<engine, repo, files, fileContents, refs, pulls, props,
                   calls, start, passes, external>>
    /\ Bookkeeping

DeleteCatalogBranch(w) ==
    /\ pc[w] = "DeleteCatalogBranch"
    /\ CleanupDelete(w, CatalogInfoBranchName, "CatalogBaseSHA")
    /\ UNCHANGED <<engine, repo, files, fileContents, props, passes, external>>
    /\ Bookkeeping

CatalogBaseSHA(w) ==
    /\ pc[w] = "CatalogBaseSHA"
    /\ MetaBase(w, "CreateCatalogBranch")
    /\ UNCHANGED <<engine, repo, files, fileContents, refs, pulls, props,
                   calls, start, passes, external>>
    /\ Bookkeeping

CreateCatalogBranch(w) ==
    /\ pc[w] = "CreateCatalogBranch"
    /\ MetaCreateBranch(w, CatalogInfoBranchName, "CreateCatalogFile")
    /\ UNCHANGED <<engine, repo, files, fileContents, pulls, props,
                   start, passes, external>>
    /\ Bookkeeping

CreateCatalogFile(w) ==
    /\ pc[w] = "CreateCatalogFile"
    /\ MetaCreateFile(w, CatalogInfoBranchName, CatalogYaml, "CreateCatalogPullRequest")
    /\ UNCHANGED <<engine, repo, files, fileContents, pulls, props,
                   start, passes, external>>
    /\ Bookkeeping

CreateCatalogPullRequest(w) ==
    /\ pc[w] = "CreateCatalogPullRequest"
    /\ MetaCreatePullRequest(w, CatalogInfoPRTitle, CatalogInfoBranchName)
    /\ UNCHANGED <<engine, repo, files, fileContents, refs, props,
                   start, passes, external>>
    /\ Bookkeeping

\* ------------------------------------------------------- environment
\* A user closes an open pull request without merging it; its head branch
\* stays behind.
ClosePull ==
    /\ external < MaxExternal
    /\ external' = external + 1
    /\ \E i \in 1..Len(pulls) :
          pulls' = [j \in 1..(Len(pulls) - 1) |-> IF j < i THEN pulls[j] ELSE pulls[j + 1]]
    /\ local' = [v \in Workers |->
                    IF Active(v) THEN [local[v] EXCEPT !.undisturbed = FALSE] ELSE local[v]]
    /\ UNCHANGED <<engine, repo, files, fileContents, refs, props,
                   pc, calls, start, passes, faults>>
    /\ Bookkeeping

\* ------------------------------------------------------ specification
PassStep(w) ==
    \/ StartPass(w)
    \/ GetRepository(w)
    \/ ListOpenPullRequests(w)
    \/ GetContents(w)
    \/ GetOurBranchSHA(w)
    \/ DeleteOurBranch(w)
    \/ GetBaseSHA(w)
    \/ CreateOurBranch(w)
    \/ CreateOurFile(w)
    \/ CreateOurPullRequest(w)
    \/ GetFileContentYaml(w)
    \/ GetFileContentYml(w)
    \/ GetCustomPropertyValues(w)
    \/ SetCustomPropertyValues(w)
    \/ CleanupPropertiesBranch(w)
    \/ DeletePropertiesBranch(w)
    \/ PropertiesBaseSHA(w)
    \/ CreatePropertiesBranch(w)
    \/ CreateWorkflowFile(w)
    \/ CreatePropertiesPullRequest(w)
    \/ CleanupCatalogBranch(w)
    \/ DeleteCatalogBranch(w)
    \/ CatalogBaseSHA(w)
    \/ CreateCatalogBranch(w)
    \/ CreateCatalogFile(w)
    \/ CreateCatalogPullRequest(w)

EngineNext ==
    \/ \E w \in Workers : PassStep(w)
    \/ ClosePull

\* ===================================================== rateLimitTransport
\* internal/github/github.go.  A response header is missing, a decimal
\* number, or text strconv.Atoi rejects.
Missing == [kind |-> "missing", n |-> 0]
Garbage == [kind |-> "garbage", n |-> 0]
Num(n) == [kind |-> "num", n |-> n]

\* resp.Header.Get(h) != ""
Present(h) == h.kind # "missing"

\* strconv.Atoi(h) succeeds
Parses(h) == h.kind = "num"

\* The responses t.next may give: status, the three X-RateLimit headers and
\* Retry-After.  X-RateLimit-Reset counts seconds.  Either the platform's
\* full set of rate-limit headers, or a response with some of them missing
\* or unreadable.
Responses ==
    [status : {StatusOK, StatusForbidden},
     hRemaining : {Num(0), Num(2), Num(3)},
     hLimit : {Num(25)},
     hReset : {Num(1), Num(3)},
     hRetryAfter : {Missing, Num(1)}]
    \cup
    [status : {StatusOK, StatusForbidden},
     hRemaining : {Missing, Garbage, Num(0)},
     hLimit : {Missing, Num(25)},
     hReset : {Missing},
     hRetryAfter : {Missing, Garbage, Num(0)}]

NoResponse ==
    [status |-> 0, hRemaining |-> Missing, hLimit |-> Missing, hReset |-> Missing,
     hRetryAfter |-> Missing]

NoPre ==
    [valid |-> FALSE, limit |-> 0, remaining |-> 0, resetAt |-> 0, now |-> 0,
     slept |-> FALSE, delay |-> 0]

RateState(r, l, ra) == [remaining |-> r, limit |-> l, resetAt |-> ra]

\* time.Until(at)
Until(at, clock) == at - clock

\* waitIfNeeded, github.go 190-215: the sleep it asks for, 0 for none.
PreemptiveDelay_NoFloor(l, r, ra, clock) ==
    IF l = 0 THEN 0
    ELSE IF r > (l * ThresholdPct) \div 100 THEN 0
    ELSE IF Until(ra, clock) <= 0 THEN 0
    ELSE IF r = 0 THEN Until(ra, clock) ELSE Until(ra, clock) \div r

PreemptiveDelay(l, r, ra, clock) ==
    IF l = 0 THEN 0
    ELSE IF r > (l * ThresholdPct) \div 100 THEN 0
    ELSE IF Until(ra, clock) <= 0 THEN 0
    ELSE LET d == IF r = 0 THEN Until(ra, clock) ELSE Until(ra, clock) \div r
         IN  IF d < Second THEN Second ELSE d

\* updateFromResponse, github.go 239-265: all three headers or nothing.
UpdateAccepted_AnyHeader(r) ==
    Parses(r.hRemaining) \/ Parses(r.hLimit) \/ Parses(r.hReset)

UpdateAccepted(r) ==
    /\ Present(r.hRemaining) /\ Present(r.hLimit) /\ Present(r.hReset)
    /\ Parses(r.hRemaining) /\ Parses(r.hLimit) /\ Parses(r.hReset)

updateFromResponse(r) ==
    /\ lastResp' = r
    /\ prev' = RateState(remaining, limit, resetAt)
    /\ IF UpdateAccepted(r)
       THEN /\ remaining' = IF Parses(r.hRemaining) THEN r.hRemaining.n ELSE remaining
            /\ limit' = IF Parses(r.hLimit) THEN r.hLimit.n ELSE limit
            /\ resetAt' = IF Parses(r.hReset) THEN r.hReset.n * Second ELSE resetAt
       ELSE UNCHANGED <<remaining, limit, resetAt>>

\* isRateLimited, github.go 278-281.
isRateLimited(r) ==
    /\ r.status = StatusForbidden
    /\ \/ r.hRemaining = Num(0)
       \/ Present(r.hRetryAfter)

\* rateLimitDelay, github.go 284-306.
rateLimitDelay(r, clock) ==
    IF Parses(r.hRetryAfter) /\ r.hRetryAfter.n > 0
    THEN r.hRetryAfter.n * Second
    ELSE IF Parses(r.hReset) /\ Until(r.hReset.n * Second, clock) > 0
    THEN Until(r.hReset.n * Second, clock)
    ELSE Second

\* sleepWithContext, github.go 319-329: which arm of the select wakes the
\* sleeper.  The goroutine parked in the select is woken by the first
\* channel that becomes ready, and every delay is positive, so a context
\* cancelled before the timer fires takes the ctx.Done() arm.
SleepOutcome_IgnoreCtx(cancelled) == "timer"

SleepOutcome(cancelled) == IF cancelled THEN "ctx" ELSE "timer"

\* RoundTrip, github.go 177: the retry's response is returned as it is.
RetryAgain_WhileLimited(r) == isRateLimited(r)

RetryAgain(r) == FALSE

TransportInit ==
    /\ remaining = 0
    /\ limit = 0
    /\ resetAt = 0
    /\ now = 0
    /\ rpc = "idle"
    /\ rcalls = 0
    /\ sent = 0
    /\ resp = NoResponse
    /\ firstBody = "none"
    /\ delay = 0
    /\ ctxDone = FALSE
    /\ result = ""
    /\ pre = NoPre
    /\ lastResp = NoResponse
    /\ prev = RateState(0, 0, 0)
    /\ cancelledAsleep = FALSE
    /\ sentAtCancel = 0

\* A caller hands a request to RoundTrip.
RoundTripBegin ==
    /\ rpc \in {"idle", "done"}
    /\ rcalls < MaxCalls
    /\ rcalls' = rcalls + 1
    /\ rpc' = "waitIfNeeded"
    /\ sent' = 0
    /\ resp' = NoResponse
    /\ firstBody' = "none"
    /\ delay' = 0
    /\ ctxDone' = FALSE
    /\ result' = ""
    /\ pre' = NoPre
    /\ cancelledAsleep' = FALSE
    /\ sentAtCancel' = 0
    /\ lastResp' = NoResponse
    /\ prev' = RateState(remaining, limit, resetAt)
    /\ UNCHANGED <<remaining, limit, resetAt, now>>
    /\ UNCHANGED <<engineVars, queueVars, frontVars>>

\* Time passes between calls.
Tick ==
    /\ rpc \in {"idle", "done"}
    /\ now < MaxTime
    /\ now' = now + 1
    /\ UNCHANGED <<remaining, limit, resetAt, rpc, rcalls, sent, resp, firstBody,
                   delay, ctxDone, result, pre, lastResp, prev, cancelledAsleep,
                   sentAtCancel>>
    /\ UNCHANGED <<engineVars, queueVars, frontVars>>

\* The owner of the request's context cancels it.
CancelCtx ==
    /\ rpc \notin {"idle", "done"}
    /\ ~ctxDone
    /\ ctxDone' = TRUE
    /\ IF rpc \in {"sleepPre", "sleepRetry"}
       THEN cancelledAsleep' = TRUE /\ sentAtCancel' = sent
       ELSE UNCHANGED <<cancelledAsleep, sentAtCancel>>
    /\ UNCHANGED <<remaining, limit, resetAt, now, rpc, rcalls, sent, resp,
                   firstBody, delay, result, pre, lastResp, prev>>
    /\ UNCHANGED <<engineVars, queueVars, frontVars>>

\* waitIfNeeded, github.go 182-231, up to the call of sleepWithContext.
WaitIfNeeded ==
    /\ rpc = "waitIfNeeded"
    /\ LET d == PreemptiveDelay(limit, remaining, resetAt, now) IN
       /\ delay' = d
       /\ rpc' = IF d = 0 THEN "send" ELSE "sleepPre"
       /\ pre' = [valid |-> TRUE, limit |-> limit, remaining |-> remaining,
                  resetAt |-> resetAt, now |-> now, slept |-> d # 0, delay |-> d]
    /\ UNCHANGED <<remaining, limit, resetAt, now, rcalls, sent, resp, firstBody,
                   ctxDone, result, lastResp, prev, cancelledAsleep, sentAtCancel>>
    /\ UNCHANGED <<engineVars, queueVars, frontVars>>

\* sleepWithContext returns, in waitIfNeeded or before the retry.
SleepEnds ==
    /\ rpc \in {"sleepPre", "sleepRetry"}
    /\ IF SleepOutcome(ctxDone) = "ctx"
       THEN /\ rpc' = "done"
            /\ result' = "context canceled"
            /\ resp' = NoResponse
            /\ UNCHANGED now
       ELSE /\ rpc' = IF rpc = "sleepPre" THEN "send" ELSE "retry"
            /\ now' = now + delay
            /\ UNCHANGED <<result, resp>>
    /\ delay' = 0
    /\ UNCHANGED <<remaining, limit, resetAt, rcalls, sent, firstBody,
                   ctxDone, pre, lastResp, prev, cancelledAsleep, sentAtCancel>>
    /\ UNCHANGED <<engineVars, queueVars, frontVars>>

\* RoundTrip, github.go 132-158: the request goes to t.next and a response
\* comes back.
Send ==
    /\ rpc = "send"
    /\ sent' = sent + 1
    /\ \E r \in Responses :
          /\ updateFromResponse(r)
          /\ IF isRateLimited(r)
             THEN /\ rpc' = "sleepRetry"
                  /\ resp' = r
                  /\ firstBody' = "open"
                  /\ delay' = rateLimitDelay(r, now)
                  /\ UNCHANGED result
             ELSE /\ rpc' = "done"
                  /\ resp' = NoResponse
                  /\ firstBody' = "returned"
                  /\ result' = "response"
                  /\ UNCHANGED delay
    /\ UNCHANGED <<now, rcalls, ctxDone, pre, cancelledAsleep, sentAtCancel>>
    /\ UNCHANGED <<engineVars, queueVars, frontVars>>

\* t.next.RoundTrip returns an error (first attempt or retry).
SendFails ==
    /\ rpc \in {"send", "retry"}
    /\ sent' = sent + 1
    /\ rpc' = "done"
    /\ result' = "transport error"
    /\ resp' = NoResponse
    /\ UNCHANGED <<remaining, limit, resetAt, now, rcalls, firstBody, delay,
                   ctxDone, pre, lastResp, prev, cancelledAsleep, sentAtCancel>>
    /\ UNCHANGED <<engineVars, queueVars, frontVars>>

\* RoundTrip, github.go 160-168: req.GetBody fails, nothing is sent.
ReplayFails ==
    /\ rpc = "retry"
    /\ rpc' = "done"
    /\ result' = "body error"
    /\ resp' = NoResponse
    /\ UNCHANGED <<remaining, limit, resetAt, now, rcalls, sent, firstBody, delay,
                   ctxDone, pre, lastResp, prev, cancelledAsleep, sentAtCancel>>
    /\ UNCHANGED <<engineVars, queueVars, frontVars>>

\* RoundTrip, github.go 170-177: the retry.
Retry ==
    /\ rpc = "retry"
    /\ sent' = sent + 1
    /\ \E r \in Responses :
          /\ updateFromResponse(r)
          /\ IF RetryAgain(r)
             THEN /\ rpc' = "sleepRetry"
                  /\ delay' = rateLimitDelay(r, now)
                  /\ UNCHANGED result
             ELSE /\ rpc' = "done"
                  /\ result' = "response"
                  /\ UNCHANGED delay
    /\ resp' = NoResponse
    /\ UNCHANGED <<now, rcalls, firstBody, ctxDone, pre, cancelledAsleep,
                   sentAtCancel>>
    /\ UNCHANGED <<engineVars, queueVars, frontVars>>

TransportNext ==
    \/ RoundTripBegin
    \/ Tick
    \/ CancelCtx
    \/ WaitIfNeeded
    \/ SleepEnds
    \/ Send
    \/ SendFails
    \/ ReplayFails
    \/ Retry

\* ================================================================ Queue
\* internal/checker/queue.go.  Enqueue, Accepting and the locked part of Stop
\* run under q.mu and contain no blocking operation, so each is one step.

QueueInit ==
    /\ ch = <<>>
    /\ closed = FALSE
    /\ stopped = FALSE
    /\ cancelFn = FALSE
    /\ rootCancelled = FALSE
    /\ workerCancelled = FALSE
    /\ wg = 0
    /\ wpc = [w \in Workers |-> "none"]
    /\ wjob = [w \in Workers |-> 0]
    /\ stoppc = [c \in StopCallers |-> "idle"]
    /\ panicked = FALSE
    /\ nextJob = 0
    /\ accepted = {}
    /\ processed = {}
    /\ dropped = {}
    /\ beforeStop = [c \in StopCallers |-> {}]
    /\ inFlight = [c \in StopCallers |-> {}]
    /\ afterCancel = {}
    /\ enqResult = ""
    /\ received = <<>>

\* workerCtx is derived from the context of Start: done when either is.
CtxDone == rootCancelled \/ workerCancelled

\* Queue.Enqueue, queue.go 60: the stopped queue turns the job away.
EnqueueRefused_Never == FALSE

EnqueueRefused == stopped

\* Queue.Accepting.
Accepting == ~stopped

\* Queue.Enqueue, the job numbered nextJob + 1: under q.mu, the check of
\* q.stopped and then the select with a default arm, which never waits.
Enqueue_BlockingSend ==
    /\ ~panicked
    /\ nextJob < MaxJobs
    /\ nextJob' = nextJob + 1
    /\ IF EnqueueRefused
       THEN /\ enqResult' = "stopped"
            /\ UNCHANGED <<ch, accepted>>
       ELSE /\ Len(ch) < QueueSize
            /\ ch' = Append(ch, nextJob + 1)
            /\ accepted' = accepted \cup {nextJob + 1}
            /\ enqResult' = "ok"
    /\ UNCHANGED <<closed, stopped, cancelFn, rootCancelled, workerCancelled, wg,
                   wpc, wjob, stoppc, panicked, processed, dropped, beforeStop, inFlight,
                   afterCancel, received>>
    /\ UNCHANGED <<engineVars, transportVars, frontVars>>

Enqueue ==
    /\ ~panicked
    /\ nextJob < MaxJobs
    /\ nextJob' = nextJob + 1
    /\ IF EnqueueRefused
       THEN /\ enqResult' = "stopped"
            /\ UNCHANGED <<ch, accepted>>
       ELSE IF Len(ch) < QueueSize
       THEN /\ ch' = Append(ch, nextJob + 1)
            /\ accepted' = accepted \cup {nextJob + 1}
            /\ enqResult' = "ok"
       ELSE /\ enqResult' = "full"
            /\ UNCHANGED <<ch, accepted>>
    /\ UNCHANGED <<closed, stopped, cancelFn, rootCancelled, workerCancelled, wg,
                   wpc, wjob, stoppc, panicked, processed, dropped, beforeStop, inFlight,
                   afterCancel, received>>
    /\ UNCHANGED <<engineVars, transportVars, frontVars>>

\* Queue.Start, queue.go 80-85: workerCtx and, under q.mu, the store of
\* cancelFn.  main calls Start once, before the shutdown sequence.
Start ==
    /\ ~panicked
    /\ ~cancelFn
    /\ \A c \in StopCallers : stoppc[c] = "idle"
    /\ cancelFn' = TRUE
    /\ UNCHANGED <<ch, closed, stopped, rootCancelled, workerCancelled, wg, wpc,
                   wjob, stoppc, panicked, nextJob, accepted, processed, dropped,
                   beforeStop, inFlight, afterCancel>>
    /\ UNCHANGED <<enqResult, received>>
    /\ UNCHANGED <<engineVars, transportVars, frontVars>>

\* Start has stored cancelFn and its loop has workers left to launch.
Starting == cancelFn /\ \E w \in Workers : wpc[w] = "none"

\* Queue.Start, queue.go 87-91: one round of the loop, q.wg.Add(1) and
\* "go q.worker" for the next worker; the workers launched before it, the
\* producers and the owner of the root context run meanwhile.
StartWorker(w) ==
    /\ ~panicked
    /\ cancelFn
    /\ wpc[w] = "none"
    /\ \A v \in Workers : v < w => wpc[v] # "none"
    /\ wg' = wg + 1
    /\ wpc' = [wpc EXCEPT ![w] = "range"]
    /\ UNCHANGED <<ch, closed, stopped, cancelFn, rootCancelled, workerCancelled,
                   wjob, stoppc, panicked, nextJob, accepted, processed, dropped,
                   beforeStop, inFlight, afterCancel>>
    /\ UNCHANGED <<enqResult, received>>
    /\ UNCHANGED <<engineVars, transportVars, frontVars>>

\* main: cancel() of the root context (signal or server failure).
CancelRoot ==
    /\ ~panicked
    /\ ~rootCancelled
    /\ rootCancelled' = TRUE
    /\ UNCHANGED <<ch, closed, stopped, cancelFn, workerCancelled, wg, wpc, wjob,
                   stoppc, panicked, nextJob, accepted, processed, dropped,
                   beforeStop, inFlight, afterCancel>>
    /\ UNCHANGED <<enqResult, received>>
    /\ UNCHANGED <<engineVars, transportVars, frontVars>>

\* Queue.Stop, queue.go 98-106: the part under q.mu.  close of a closed
\* channel panics.  The goroutine that calls Stop is the one that called
\* Start (main), so Stop does not begin while Start is running.
StopLocked(c) ==
    /\ ~panicked
    /\ stoppc[c] = "idle"
    /\ ~Starting
    /\ stopped' = TRUE
    /\ workerCancelled' = (workerCancelled \/ cancelFn)
    /\ beforeStop' = [beforeStop EXCEPT ![c] = accepted]
    /\ inFlight' = [inFlight EXCEPT ![c] = {w \in Workers : wpc[w] = "CheckRepo"}]
    /\ IF closed
       THEN /\ panicked' = TRUE
            /\ stoppc' = [stoppc EXCEPT ![c] = "panicked"]
            /\ UNCHANGED closed
       ELSE /\ closed' = TRUE
            /\ stoppc' = [stoppc EXCEPT ![c] = "wait"]
            /\ UNCHANGED panicked
    /\ UNCHANGED <<ch, cancelFn, rootCancelled, wg, wpc, wjob, nextJob, accepted,
                   processed, dropped, afterCancel>>
    /\ UNCHANGED <<enqResult, received>>
    /\ UNCHANGED <<engineVars, transportVars, frontVars>>

WaitGroupDone_NoWait == TRUE

\* q.wg.Wait() is over.
WaitGroupDone == wg = 0

\* Queue.Stop, queue.go 107-110: wg.Wait and return.
StopReturn(c) ==
    /\ ~panicked
    /\ stoppc[c] = "wait"
    /\ WaitGroupDone
    /\ stoppc' = [stoppc EXCEPT ![c] = "returned"]
    /\ UNCHANGED <<ch, closed, stopped, cancelFn, rootCancelled, workerCancelled,
                   wg, wpc, wjob, panicked, nextJob, accepted, processed, dropped,
                   beforeStop, inFlight, afterCancel>>
    /\ UNCHANGED <<enqResult, received>>
    /\ UNCHANGED <<engineVars, transportVars, frontVars>>

\* A receive from the buffered channel takes the oldest element.
Recv_Newest(buf) == buf[Len(buf)]

Recv(buf) == Head(buf)

\* worker, queue.go 131: one receive of "for job := range q.ch".  The
\* receive blocks while the buffer is empty and open.
WorkerReceive(w) ==
    /\ ~panicked
    /\ wpc[w] = "range"
    /\ IF Len(ch) > 0
       THEN /\ wjob' = [wjob EXCEPT ![w] = Recv(ch)]
            /\ received' = Append(received, Recv(ch))
            /\ ch' = Tail(ch)
            /\ wpc' = [wpc EXCEPT ![w] = "select"]
            /\ afterCancel' = IF rootCancelled THEN afterCancel \cup {Recv(ch)}
                              ELSE afterCancel
            /\ UNCHANGED wg
       ELSE /\ closed
            /\ wpc' = [wpc EXCEPT ![w] = "returned"]
            /\ wg' = wg - 1
            /\ UNCHANGED <<ch, wjob, afterCancel, received>>
    /\ UNCHANGED <<closed, stopped, cancelFn, rootCancelled, workerCancelled,
                   stoppc, panicked, nextJob, accepted, processed, dropped, beforeStop, inFlight>>
    /\ UNCHANGED <<enqResult>>
    /\ UNCHANGED <<engineVars, transportVars, frontVars>>

\* worker, queue.go 132-137: the select on ctx.Done().
WorkerSelect(w) ==
    /\ ~panicked
    /\ wpc[w] = "select"
    /\ IF CtxDone
       THEN /\ wpc' = [wpc EXCEPT ![w] = "returned"]
            /\ wg' = wg - 1
            /\ dropped' = dropped \cup {wjob[w]}
            /\ wjob' = [wjob EXCEPT ![w] = 0]
       ELSE /\ wpc' = [wpc EXCEPT ![w] = "processJob"]
            /\ UNCHANGED <<wg, dropped, wjob>>
    /\ UNCHANGED <<ch, closed, stopped, cancelFn, rootCancelled, workerCancelled,
                   stoppc, panicked, nextJob, accepted, processed, beforeStop, inFlight,
                   afterCancel>>
    /\ UNCHANGED <<enqResult, received>>
    /\ UNCHANGED <<engineVars, transportVars, frontVars>>

\* processJob, queue.go 152-171: the installation client (which the client
\* always provides), then the call of engine.CheckRepo.
ProcessJob(w) ==
    /\ ~panicked
    /\ wpc[w] = "processJob"
    /\ wpc' = [wpc EXCEPT ![w] = "CheckRepo"]
    /\ processed' = processed \cup {wjob[w]}
    /\ UNCHANGED <<ch, closed, stopped, cancelFn, rootCancelled, workerCancelled,
                   wg, wjob, stoppc, panicked, nextJob, accepted, dropped,
                   beforeStop, inFlight, afterCancel>>
    /\ UNCHANGED <<enqResult, received>>
    /\ UNCHANGED <<engineVars, transportVars, frontVars>>

AfterJob_Return == "returned"

\* worker, queue.go 131-142: after processJob the for-range loop goes round.
AfterJob == "range"

\* processJob, queue.go 171-182: CheckRepo returns; back to the range loop.
CheckRepoReturns(w) ==
    /\ ~panicked
    /\ wpc[w] = "CheckRepo"
    /\ wpc' = [wpc EXCEPT ![w] = AfterJob]
    /\ wjob' = [wjob EXCEPT ![w] = 0]
    /\ UNCHANGED <<ch, closed, stopped, cancelFn, rootCancelled, workerCancelled,
                   wg, stoppc, panicked, nextJob, accepted, processed, dropped,
                   beforeStop, inFlight, afterCancel>>
    /\ UNCHANGED <<enqResult, received>>
    /\ UNCHANGED <<engineVars, transportVars, frontVars>>

QueueNext ==
    \/ Enqueue
    \/ Start
    \/ \E w \in Workers : StartWorker(w)
    \/ CancelRoot
    \/ \E c \in StopCallers : StopLocked(c) \/ StopReturn(c)
    \/ \E w \in Workers : \/ WorkerReceive(w)
                          \/ WorkerSelect(w)
                          \/ ProcessJob(w)
                          \/ CheckRepoReturns(w)

\* ============================================================== Webhook
\* internal/webhook: Handler.ServeHTTP.  gh.ValidatePayload and gh.ParseWebHook
\* belong to the go-github library: the first fails when the signature header
\* is missing or does not match the HMAC of the body under the configured
\* (non-empty) secret, the second when the event type is not one the library
\* knows or the body is not the JSON of that event.
HandledEvents == {"repository", "installation_repositories", "installation"}

\* The requests the endpoint may receive.  A repository event names one
\* repository; the installation events list repos repositories.
Requests ==
    {r \in [method : {"POST", "GET"}, signed : BOOLEAN,
            event : HandledEvents \cup {"check_run", "unknown"},
            wellFormed : BOOLEAN, action : {"created", "added", "deleted"},
            repos : 0..MaxRepos] :
        r.event = "repository" => r.repos = 1}

NoRequest ==
    [method |-> "", signed |-> FALSE, event |-> "", wellFormed |-> FALSE,
     action |-> "", repos |-> 0]

ValidatePayload_AcceptsAll(r) == TRUE

ValidatePayload(r) == r.signed

ParseWebHook(r) == r.event # "unknown" /\ r.wellFormed

\* handleRepositoryEvent, handleInstallationRepositoriesEvent and
\* handleInstallationEvent: the number of calls of h.enqueue.
FanOut(r) ==
    CASE r.event = "repository" -> IF r.action = "created" THEN 1 ELSE 0
      [] r.event = "installation_repositories" -> IF r.action = "added" THEN r.repos ELSE 0
      [] r.event = "installation" -> IF r.action = "created" THEN r.repos ELSE 0
      [] OTHER -> 0

UnhandledStatus_OK == StatusOK

\* ServeHTTP, the default arm of the type switch.
UnhandledStatus == StatusNoContent

DispatchStatus_FailOnError(failed) == IF failed THEN StatusBadRequest ELSE StatusOK

\* ServeHTTP, the last line: the status after a handled event, whatever
\* h.enqueue met.
DispatchStatus(failed) == StatusOK

WebhookInit ==
    /\ whpc = "idle"
    /\ whreq = NoRequest
    /\ whpending = 0
    /\ whoffered = <<>>
    /\ whlogged = {}
    /\ whstatus = 0
    /\ whbody = ""
    /\ whcount = 0

\* ServeHTTP up to the type switch and the action test of the handle
\* function: these steps touch nothing shared.
ServeHTTP ==
    /\ whpc \in {"idle", "responded"}
    /\ whcount < MaxRequests
    /\ whcount' = whcount + 1
    /\ whoffered' = <<>>
    /\ whlogged' = {}
    /\ \E r \in Requests :
          /\ whreq' = r
          /\ IF r.method # "POST"
             THEN /\ whstatus' = StatusMethodNotAllowed
                  /\ whbody' = "method not allowed"
                  /\ whpc' = "responded"
                  /\ whpending' = 0
             ELSE IF ~ValidatePayload(r)
             THEN /\ whstatus' = StatusUnauthorized
                  /\ whbody' = "invalid payload"
                  /\ whpc' = "responded"
                  /\ whpending' = 0
             ELSE IF ~ParseWebHook(r)
             THEN /\ whstatus' = StatusBadRequest
                  /\ whbody' = "bad request"
                  /\ whpc' = "responded"
                  /\ whpending' = 0
             ELSE IF r.event \notin HandledEvents
             THEN /\ whstatus' = UnhandledStatus
                  /\ whbody' = ""
                  /\ whpc' = "responded"
                  /\ whpending' = 0
             ELSE /\ whstatus' = 0
                  /\ whbody' = ""
                  /\ whpc' = "enqueue"
                  /\ whpending' = FanOut(r)
    /\ UNCHANGED <<startupVars, engineVars, queueVars, transportVars, schedulerVars>>

\* Handler.enqueue: one call of q.Enqueue; an error is logged and dropped.
HandlerEnqueue ==
    /\ whpc = "enqueue"
    /\ whpending > 0
    /\ whpending' = whpending - 1
    /\ nextJob' = nextJob + 1
    /\ LET job == nextJob + 1
           res == IF EnqueueRefused THEN "stopped"
                  ELSE IF Len(ch) < QueueSize THEN "ok" ELSE "full"
       IN /\ enqResult' = res
          /\ ch' = IF res = "ok" THEN Append(ch, job) ELSE ch
          /\ accepted' = IF res = "ok" THEN accepted \cup {job} ELSE accepted
          /\ whoffered' = Append(whoffered, [job |-> job, result |-> res])
          /\ whlogged' = IF res = "ok" THEN whlogged ELSE whlogged \cup {job}
    /\ UNCHANGED <<whpc, whreq, whstatus, whbody, whcount>>
    /\ UNCHANGED <<closed, stopped, cancelFn, rootCancelled, workerCancelled, wg,
                   wpc, wjob, stoppc, panicked, processed, dropped, beforeStop,
                   inFlight, afterCancel, received>>
    /\ UNCHANGED <<startupVars, engineVars, transportVars, schedulerVars>>

\* ServeHTTP, w.WriteHeader(http.StatusOK) after the handle function returned.
WriteResponse ==
    /\ whpc = "enqueue"
    /\ whpending = 0
    /\ whpc' = "responded"
    /\ whstatus' = DispatchStatus(whlogged # {})
    /\ UNCHANGED <<whreq, whpending, whoffered, whlogged, whbody, whcount>>
    /\ UNCHANGED <<startupVars, engineVars, queueVars, transportVars, schedulerVars>>

\* The handler at work while the process may be shutting the queue down.
WebhookNext ==
    \/ ServeHTTP
    \/ HandlerEnqueue
    \/ WriteResponse
    \/ \E c \in StopCallers : StopLocked(c)

\* ============================================================ Scheduler
\* internal/scheduler: Scheduler.Start and reconcileAll.  The context of Start
\* is the root context of main, the one Queue.Start receives.

SchedulerInit ==
    /\ spc = "notStarted"
    /\ tickReady = FALSE
    /\ spending = <<>>
    /\ slisted = <<>>
    /\ sinstalls = 0
    /\ soffered = <<>>
    /\ sweeps = 0
    /\ lateSweeps = 0

\* What ListInstallationRepos may answer for one installation: an error, or
\* up to MaxRepos repositories, each plain, archived or a fork.
RepoKinds == {"plain", "archived", "fork"}

RepoLists == UNION {[1..n -> RepoKinds] : n \in 0..MaxRepos}

RepoListings == [failed : BOOLEAN, repos : RepoLists]

\* reconcileAll, the pre-filter of one repository.
PreFiltered(kind) ==
    \/ engine.skipArchived /\ kind = "archived"
    \/ engine.skipForks /\ kind = "fork"

\* The repositories of installation i that reconcileAll hands to Enqueue, in
\* order, from index k of the listing on: none when the listing failed.
RECURSIVE EligibleRepos(_, _, _)
EligibleRepos(listing, i, k) ==
    IF listing.failed \/ k > Len(listing.repos) THEN <<>>
    ELSE IF PreFiltered(listing.repos[k]) THEN EligibleRepos(listing, i, k + 1)
    ELSE <<[installation |-> i, index |-> k]>> \o EligibleRepos(listing, i, k + 1)

\* reconcileAll up to the loop over the installations: ListInstallations
\* gives the installations to visit, none when it fails.
BeginSweep ==
    /\ spc' = "reconcile"
    /\ sweeps' = sweeps + 1
    /\ soffered' = <<>>
    /\ slisted' = <<>>
    /\ spending' = <<>>
    /\ \E n \in 0..Installations : sinstalls' = n

RemainingAfter_ReturnOnError(rest, failed) == IF failed THEN <<>> ELSE rest

\* reconcileAll after q.Enqueue: `continue` in the error branch and the end
\* of the loop body otherwise both go on with the rest of the repositories.
RemainingAfter(rest, failed) == rest

\* Scheduler.Start: the sweep on startup, before any look at the context.
SchedulerStart ==
    /\ spc = "notStarted"
    /\ BeginSweep
    /\ UNCHANGED <<tickReady, lateSweeps>>
    /\ UNCHANGED <<startupVars, engineVars, queueVars, transportVars, webhookVars>>

\* reconcileAll: ListInstallationRepos for the next installation, and the
\* pre-filter of what it returned.
ListInstallationRepos ==
    /\ spc = "reconcile"
    /\ spending = <<>>
    /\ sinstalls > 0
    /\ sinstalls' = sinstalls - 1
    /\ \E listing \in RepoListings :
          /\ spending' = EligibleRepos(listing, sinstalls, 1)
          /\ slisted' = slisted \o EligibleRepos(listing, sinstalls, 1)
    /\ UNCHANGED <<spc, tickReady, soffered, sweeps, lateSweeps>>
    /\ UNCHANGED <<startupVars, engineVars, queueVars, transportVars, webhookVars>>

\* reconcileAll: q.Enqueue of the next eligible repository; an error is
\* logged and the loop goes on.
SweepOffer ==
    /\ spc = "reconcile"
    /\ spending # <<>>
    /\ nextJob' = nextJob + 1
    /\ LET job == nextJob + 1
           res == IF EnqueueRefused THEN "stopped"
                  ELSE IF Len(ch) < QueueSize THEN "ok" ELSE "full"
       IN /\ enqResult' = res
          /\ ch' = IF res = "ok" THEN Append(ch, job) ELSE ch
          /\ accepted' = IF res = "ok" THEN accepted \cup {job} ELSE accepted
          /\ soffered' = Append(soffered, [job |-> job, result |-> res,
                                           repo |-> Head(spending)])
          /\ spending' = RemainingAfter(Tail(spending), res # "ok")
    /\ UNCHANGED <<spc, tickReady, slisted, sinstalls, sweeps, lateSweeps>>
    /\ UNCHANGED <<closed, stopped, cancelFn, rootCancelled, workerCancelled, wg,
                   wpc, wjob, stoppc, panicked, processed, dropped, beforeStop,
                   inFlight, afterCancel, received>>
    /\ UNCHANGED <<startupVars, engineVars, transportVars, webhookVars>>

\* reconcileAll returns; Start is at its select.
SweepEnds ==
    /\ spc = "reconcile"
    /\ spending = <<>>
    /\ sinstalls = 0
    /\ spc' = "select"
    /\ UNCHANGED <<tickReady, spending, slisted, sinstalls, soffered, sweeps, lateSweeps>>
    /\ UNCHANGED <<startupVars, engineVars, queueVars, transportVars, webhookVars>>

\* The interval elapses: the ticker puts a tick in ticker.C unless one waits.
\* time.NewTicker comes after the first reconcileAll and the deferred Stop
\* runs when Start returns.
TickFires ==
    /\ spc = "select" \/ (spc = "reconcile" /\ sweeps > 1)
    /\ ~tickReady
    /\ sweeps < MaxSweeps
    /\ tickReady' = TRUE
    /\ UNCHANGED <<spc, spending, slisted, sinstalls, soffered, sweeps, lateSweeps>>
    /\ UNCHANGED <<startupVars, engineVars, queueVars, transportVars, webhookVars>>

\* Start's select: Go chooses among the ready arms at random, so a waiting
\* tick may be taken while ctx.Done() is ready too.
\* Start's select takes the tick: the next sweep begins.
SelectTick ==
    /\ spc = "select"
    /\ tickReady
    /\ tickReady' = FALSE
    /\ BeginSweep
    /\ lateSweeps' = IF rootCancelled THEN lateSweeps + 1 ELSE lateSweeps
    /\ UNCHANGED <<startupVars, engineVars, queueVars, transportVars, webhookVars>>

\* Start's select takes ctx.Done(): Start returns.
SelectDone ==
    /\ spc = "select"
    /\ rootCancelled
    /\ spc' = "returned"
    /\ UNCHANGED <<tickReady, spending, slisted, sinstalls, soffered, sweeps, lateSweeps>>
    /\ UNCHANGED <<startupVars, engineVars, queueVars, transportVars, webhookVars>>

\* The scheduler, the cancellation of the root context and the shutdown of
\* the queue.
SchedulerNext ==
    \/ SchedulerStart
    \/ ListInstallationRepos
    \/ SweepOffer
    \/ SweepEnds
    \/ TickFires
    \/ SelectTick
    \/ SelectDone
    \/ CancelRoot
    \/ \E c \in StopCallers : StopLocked(c)

\* ======================================================== Configuration
\* internal/config: Load and its helpers, and what main does with the result.
\* strconv.ParseBool, strconv.Atoi, strconv.ParseInt and time.ParseDuration
\* belong to the Go library; each is modelled on the literals below by what
\* it returns for them.
BoolKeys == {"SKIP_FORKS", "SKIP_ARCHIVED", "DRY_RUN"}

\* strconv.ParseBool: the literals it accepts, and an error for anything else.
ParseBool(s) ==
    IF s \in {"1", "t", "T", "TRUE", "true", "True"} THEN [ok |-> TRUE, value |-> TRUE]
    ELSE IF s \in {"0", "f", "F", "FALSE", "false", "False"} THEN [ok |-> TRUE, value |-> FALSE]
    ELSE [ok |-> FALSE, value |-> FALSE]

\* strconv.Atoi and strconv.ParseInt(s, 10, 64) on the literals of IntInputs.
Atoi(s) ==
    CASE s = "3" -> [ok |-> TRUE, value |-> 3]
      [] s = "12345" -> [ok |-> TRUE, value |-> 12345]
      [] OTHER -> [ok |-> FALSE, value |-> 0]

\* time.ParseDuration on the literals of DurationInputs, in hours.
ParseDuration(s) ==
    CASE s = "24h" -> [ok |-> TRUE, value |-> 24]
      [] OTHER -> [ok |-> FALSE, value |-> 0]

BoolInputs == {"", "true", "F", "0", "yes", "no"}

IntInputs == {"", "3", "not-a-number"}

DurationInputs == {"", "24h", "not-a-duration"}

\* The environments the process may be started in.
Environments ==
    [SKIP_FORKS : BoolInputs, SKIP_ARCHIVED : BoolInputs, DRY_RUN : BoolInputs,
     GITHUB_APP_ID : {"", "12345", "not-a-number"},
     WORKER_COUNT : IntInputs, QUEUE_SIZE : {"", "3"},
     SCHEDULE_INTERVAL : DurationInputs,
     GITHUB_PRIVATE_KEY_PATH : {"", "/key.pem"},
     GITHUB_WEBHOOK_SECRET : {"", "secret"},
     LOG_LEVEL : {"", "debug"}]

\* An environment with the required variables only.
MinimalEnvironment ==
    [SKIP_FORKS |-> "", SKIP_ARCHIVED |-> "", DRY_RUN |-> "",
     GITHUB_APP_ID |-> "12345", WORKER_COUNT |-> "", QUEUE_SIZE |-> "",
     SCHEDULE_INTERVAL |-> "", GITHUB_PRIVATE_KEY_PATH |-> "/key.pem",
     GITHUB_WEBHOOK_SECRET |-> "secret", LOG_LEVEL |-> ""]

NoConfig ==
    [SkipForks |-> FALSE, SkipArchived |-> FALSE, DryRun |-> FALSE,
     LogLevel |-> "", GitHubAppID |-> 0, GitHubPrivateKeyPath |-> "",
     GitHubWebhookSecret |-> "", WorkerCount |-> 0, QueueSize |-> 0,
     ScheduleInterval |-> 0]

envOrDefault(val, defaultVal) == IF val # "" THEN val ELSE defaultVal

\* envOrDefaultBool has no error result: a value strconv.ParseBool rejects
\* gives the default.
envOrDefaultBool(val, defaultVal) ==
    IF val = "" THEN defaultVal
    ELSE IF ~ParseBool(val).ok THEN defaultVal
    ELSE ParseBool(val).value

envOrDefaultInt(val, defaultVal) ==
    IF val = "" THEN [ok |-> TRUE, value |-> defaultVal] ELSE Atoi(val)

envOrDefaultDuration(val, defaultVal) ==
    IF val = "" THEN [ok |-> TRUE, value |-> defaultVal] ELSE ParseDuration(val)

\* Config.Validate: the required fields.
Validate(c) ==
    /\ c.GitHubAppID # 0
    /\ c.GitHubPrivateKeyPath # ""
    /\ c.GitHubWebhookSecret # ""

\* config.Load: the configuration and the error it returns for an
\* environment ("" is the nil error, and the configuration is nil with an
\* error).
LoadConfig(env) ==
    LET c0 == [SkipForks |-> envOrDefaultBool(env.SKIP_FORKS, TRUE),
               SkipArchived |-> envOrDefaultBool(env.SKIP_ARCHIVED, TRUE),
               DryRun |-> envOrDefaultBool(env.DRY_RUN, FALSE),
               LogLevel |-> envOrDefault(env.LOG_LEVEL, "info"),
               GitHubPrivateKeyPath |-> env.GITHUB_PRIVATE_KEY_PATH,
               GitHubWebhookSecret |-> env.GITHUB_WEBHOOK_SECRET,
               GitHubAppID |-> IF env.GITHUB_APP_ID = "" THEN 0
                               ELSE Atoi(env.GITHUB_APP_ID).value,
               WorkerCount |-> envOrDefaultInt(env.WORKER_COUNT, DefaultWorkerCount).value,
               QueueSize |-> envOrDefaultInt(env.QUEUE_SIZE, DefaultQueueSize).value,
               ScheduleInterval |->
                   envOrDefaultDuration(env.SCHEDULE_INTERVAL, DefaultIntervalHours).value]
    IN  IF env.GITHUB_APP_ID # "" /\ ~Atoi(env.GITHUB_APP_ID).ok
        THEN [cfg |-> NoConfig, err |-> "parsing GITHUB_APP_ID"]
        ELSE IF ~envOrDefaultInt(env.WORKER_COUNT, DefaultWorkerCount).ok
        THEN [cfg |-> NoConfig, err |-> "parsing WORKER_COUNT"]
        ELSE IF ~envOrDefaultInt(env.QUEUE_SIZE, DefaultQueueSize).ok
        THEN [cfg |-> NoConfig, err |-> "parsing QUEUE_SIZE"]
        ELSE IF ~envOrDefaultDuration(env.SCHEDULE_INTERVAL, DefaultIntervalHours).ok
        THEN [cfg |-> NoConfig, err |-> "parsing SCHEDULE_INTERVAL"]
        ELSE IF ~Validate(c0) THEN [cfg |-> NoConfig, err |-> "required"]
        ELSE [cfg |-> c0, err |-> ""]

\* The process before main has run, in a fixed environment.
ConfigIdle ==
    /\ environ = MinimalEnvironment
    /\ cpc = "start"
    /\ cfg = NoConfig
    /\ cfgErr = ""

\* The process before main has run, in any of the environments.
ConfigInit ==
    /\ environ \in Environments
    /\ cpc = "start"
    /\ cfg = NoConfig
    /\ cfgErr = ""

\* main: cfg, err := config.Load().
Load ==
    /\ cpc = "start"
    /\ cpc' = "loaded"
    /\ cfg' = LoadConfig(environ).cfg
    /\ cfgErr' = LoadConfig(environ).err
    /\ UNCHANGED environ
    /\ UNCHANGED <<engineVars, queueVars, transportVars, webhookVars, schedulerVars>>
    /\ UNCHANGED <<lockVars, mutexVars, cacheVars>>

\* main: os.Exit(1) when Load returned an error.
MainExits ==
    /\ cpc = "loaded"
    /\ cfgErr # ""
    /\ cpc' = "exited"
    /\ UNCHANGED <<environ, cfg, cfgErr>>
    /\ UNCHANGED <<engineVars, queueVars, transportVars, webhookVars, schedulerVars>>
    /\ UNCHANGED <<lockVars, mutexVars, cacheVars>>

\* main goes on to build the client, the engine and the queue.
MainProceeds ==
    /\ cpc = "loaded"
    /\ cfgErr = ""
    /\ cpc' = "running"
    /\ UNCHANGED <<environ, cfg, cfgErr>>
    /\ UNCHANGED <<engineVars, queueVars, transportVars, webhookVars, schedulerVars>>
    /\ UNCHANGED <<lockVars, mutexVars, cacheVars>>

ConfigNext == Load \/ MainExits \/ MainProceeds

\* ===================================================== Queue under q.mu
\* Queue.Enqueue and Queue.Stop statement by statement, with q.mu as a
\* variable, so that what the mutex excludes is checked and not assumed.
Producers == {1, 2}

Stoppers == {1, 2}

NoHolder == [op |-> "", id |-> 0]

QueueLockFree_Always == TRUE

\* q.mu.Lock() goes through when nobody holds q.mu.
QueueLockFree == qmu = NoHolder

LockInit ==
    /\ qmu = NoHolder
    /\ epc = [p \in Producers |-> "idle"]
    /\ ejob = [p \in Producers |-> 0]
    /\ eres = [p \in Producers |-> ""]
    /\ kpc = [c \in Stoppers |-> "idle"]
    /\ sendOnClosed = FALSE

\* Enqueue, queue.go 57-58: q.mu.Lock() with the unlock deferred.
EnqueueLock(p) ==
    /\ ~panicked
    /\ epc[p] = "idle"
    /\ nextJob < MaxJobs
    /\ QueueLockFree
    /\ qmu' = [op |-> "Enqueue", id |-> p]
    /\ epc' = [epc EXCEPT ![p] = "check"]
    /\ nextJob' = nextJob + 1
    /\ ejob' = [ejob EXCEPT ![p] = nextJob + 1]
    /\ eres' = [eres EXCEPT ![p] = ""]
    /\ UNCHANGED <<kpc, sendOnClosed>>
    /\ UNCHANGED <<ch, closed, stopped, cancelFn, rootCancelled, workerCancelled, wg,
                   wpc, wjob, stoppc, panicked, accepted, processed, dropped,
                   beforeStop, inFlight, afterCancel, enqResult, received>>
    /\ UNCHANGED <<engineVars, transportVars, webhookVars, schedulerVars>>
    /\ UNCHANGED <<configVars, mutexVars, cacheVars>>

\* Enqueue, queue.go 60-62: if q.stopped, return the error (and unlock).
EnqueueCheck(p) ==
    /\ ~panicked
    /\ epc[p] = "check"
    /\ IF EnqueueRefused
       THEN /\ epc' = [epc EXCEPT ![p] = "idle"]
            /\ eres' = [eres EXCEPT ![p] = "stopped"]
            /\ enqResult' = "stopped"
            /\ qmu' = IF qmu = [op |-> "Enqueue", id |-> p] THEN NoHolder ELSE qmu
       ELSE /\ epc' = [epc EXCEPT ![p] = "send"]
            /\ UNCHANGED <<eres, enqResult, qmu>>
    /\ UNCHANGED <<ejob, kpc, sendOnClosed>>
    /\ UNCHANGED <<ch, closed, stopped, cancelFn, rootCancelled, workerCancelled, wg,
                   wpc, wjob, stoppc, panicked, nextJob, accepted, processed, dropped,
                   beforeStop, inFlight, afterCancel, received>>
    /\ UNCHANGED <<engineVars, transportVars, webhookVars, schedulerVars>>
    /\ UNCHANGED <<configVars, mutexVars, cacheVars>>

\* Enqueue, queue.go 64-75: the select with the send and the default arm,
\* then the deferred unlock.  A send on a closed channel panics.
EnqueueSend(p) ==
    /\ ~panicked
    /\ epc[p] = "send"
    /\ epc' = [epc EXCEPT ![p] = "idle"]
    /\ qmu' = IF qmu = [op |-> "Enqueue", id |-> p] THEN NoHolder ELSE qmu
    /\ IF closed
       THEN /\ sendOnClosed' = TRUE
            /\ panicked' = TRUE
            /\ eres' = [eres EXCEPT ![p] = "panic"]
            /\ UNCHANGED <<ch, accepted, enqResult>>
       ELSE IF Len(ch) < QueueSize
       THEN /\ ch' = Append(ch, ejob[p])
            /\ accepted' = accepted \cup {ejob[p]}
            /\ eres' = [eres EXCEPT ![p] = "ok"]
            /\ enqResult' = "ok"
            /\ UNCHANGED <<sendOnClosed, panicked>>
       ELSE /\ eres' = [eres EXCEPT ![p] = "full"]
            /\ enqResult' = "full"
            /\ UNCHANGED <<ch, accepted, sendOnClosed, panicked>>
    /\ UNCHANGED <<ejob, kpc>>
    /\ UNCHANGED <<closed, stopped, cancelFn, rootCancelled, workerCancelled, wg,
                   wpc, wjob, stoppc, nextJob, processed, dropped,
                   beforeStop, inFlight, afterCancel, received>>
    /\ UNCHANGED <<engineVars, transportVars, webhookVars, schedulerVars>>
    /\ UNCHANGED <<configVars, mutexVars, cacheVars>>

\* Stop, queue.go 98: q.mu.Lock().
StopLock(c) ==
    /\ ~panicked
    /\ kpc[c] = "idle"
    /\ QueueLockFree
    /\ qmu' = [op |-> "Stop", id |-> c]
    /\ kpc' = [kpc EXCEPT ![c] = "mark"]
    /\ UNCHANGED <<epc, ejob, eres, sendOnClosed>>
    /\ UNCHANGED <<queueVars, engineVars, transportVars, webhookVars, schedulerVars>>
    /\ UNCHANGED <<configVars, mutexVars, cacheVars>>

\* Stop, queue.go 99-103: q.stopped = true and the cancellation of the
\* workers' context.
StopMark(c) ==
    /\ ~panicked
    /\ kpc[c] = "mark"
    /\ kpc' = [kpc EXCEPT ![c] = "close"]
    /\ stopped' = TRUE
    /\ workerCancelled' = (workerCancelled \/ cancelFn)
    /\ UNCHANGED <<qmu, epc, ejob, eres, sendOnClosed>>
    /\ UNCHANGED <<ch, closed, cancelFn, rootCancelled, wg, wpc, wjob, stoppc,
                   panicked, nextJob, accepted, processed, dropped, beforeStop,
                   inFlight, afterCancel, enqResult, received>>
    /\ UNCHANGED <<engineVars, transportVars, webhookVars, schedulerVars>>
    /\ UNCHANGED <<configVars, mutexVars, cacheVars>>

\* Stop, queue.go 105-106: close(q.ch) and q.mu.Unlock().  The close of a
\* closed channel panics, with q.mu still held.
StopClose(c) ==
    /\ ~panicked
    /\ kpc[c] = "close"
    /\ IF closed
       THEN /\ panicked' = TRUE
            /\ kpc' = [kpc EXCEPT ![c] = "panicked"]
            /\ UNCHANGED <<closed, qmu>>
       ELSE /\ closed' = TRUE
            /\ kpc' = [kpc EXCEPT ![c] = "wait"]
            /\ qmu' = IF qmu = [op |-> "Stop", id |-> c] THEN NoHolder ELSE qmu
            /\ UNCHANGED panicked
    /\ UNCHANGED <<epc, ejob, eres, sendOnClosed>>
    /\ UNCHANGED <<ch, stopped, cancelFn, rootCancelled, workerCancelled, wg, wpc,
                   wjob, stoppc, nextJob, accepted, processed, dropped, beforeStop,
                   inFlight, afterCancel, enqResult, received>>
    /\ UNCHANGED <<engineVars, transportVars, webhookVars, schedulerVars>>
    /\ UNCHANGED <<configVars, mutexVars, cacheVars>>

\* Stop, queue.go 107-110: q.wg.Wait() and return.
StopWait(c) ==
    /\ ~panicked
    /\ kpc[c] = "wait"
    /\ WaitGroupDone
    /\ kpc' = [kpc EXCEPT ![c] = "returned"]
    /\ UNCHANGED <<qmu, epc, ejob, eres, sendOnClosed>>
    /\ UNCHANGED <<queueVars, engineVars, transportVars, webhookVars, schedulerVars>>
    /\ UNCHANGED <<configVars, mutexVars, cacheVars>>

LockNext ==
    \/ \E p \in Producers : EnqueueLock(p) \/ EnqueueCheck(p) \/ EnqueueSend(p)
    \/ \E c \in Stoppers : StopLock(c) \/ StopMark(c) \/ StopClose(c) \/ StopWait(c)

\* ================================================ Transport under t.mu
\* rateLimitTransport.RoundTrip statement by statement for several requests
\* at once, with t.mu as a variable: waitIfNeeded locks to copy the three
\* fields, updateFromResponse locks to store them.
Requesters == {1, 2}

\* The responses used here: limited and not, with and without a readable
\* set of rate-limit headers.
MutexResponses ==
    {r \in Responses :
        /\ r.hRetryAfter = Missing
        /\ r.hRemaining \in {Num(0), Num(2), Missing}
        /\ r.hReset \in {Num(3), Missing}}

Asleep == {"sleepPre", "sleepRetry"}

InFlight == {"inflight", "inflightRetry"}

HeldAfterRead_UntilReturn(r) == r

\* waitIfNeeded, github.go 183-187: t.mu.Unlock() follows the three reads,
\* before anything else.
HeldAfterRead(r) == 0

MutexInit ==
    /\ tmu = 0
    /\ tpc = [r \in Requesters |-> "idle"]
    /\ tresp = [r \in Requesters |-> NoResponse]

\* A caller hands a request to RoundTrip.
RequestBegins(r) ==
    /\ tpc[r] = "idle"
    /\ rcalls < MaxCalls
    /\ rcalls' = rcalls + 1
    /\ tpc' = [tpc EXCEPT ![r] = "lockRead"]
    /\ tresp' = [tresp EXCEPT ![r] = NoResponse]
    /\ UNCHANGED tmu
    /\ UNCHANGED <<remaining, limit, resetAt, now, rpc, sent, resp, firstBody, delay,
                   ctxDone, result, pre, lastResp, prev, cancelledAsleep, sentAtCancel>>
    /\ UNCHANGED <<engineVars, queueVars, webhookVars, schedulerVars>>
    /\ UNCHANGED <<configVars, lockVars, cacheVars>>

\* t.mu.Lock(), in waitIfNeeded (github.go 183) and in updateFromResponse
\* (github.go 262): it goes through when t.mu is free.
MutexLock(r) ==
    /\ tpc[r] \in {"lockRead", "lockWrite", "lockWriteRetry"}
    /\ tmu = 0
    /\ tmu' = r
    /\ tpc' = [tpc EXCEPT ![r] = CASE tpc[r] = "lockRead" -> "read"
                                   [] tpc[r] = "lockWrite" -> "write"
                                   [] OTHER -> "writeRetry"]
    /\ UNCHANGED tresp
    /\ UNCHANGED <<transportVars, engineVars, queueVars, webhookVars, schedulerVars>>
    /\ UNCHANGED <<configVars, lockVars, cacheVars>>

\* waitIfNeeded, github.go 184-218: the copies, the unlock, and the decision
\* to sleep or not.
ReadAndUnlock(r) ==
    /\ tpc[r] = "read"
    /\ tmu' = HeldAfterRead(r)
    /\ tpc' = [tpc EXCEPT ![r] =
                  IF PreemptiveDelay(limit, remaining, resetAt, now) = 0
                  THEN "send" ELSE "sleepPre"]
    /\ UNCHANGED tresp
    /\ UNCHANGED <<transportVars, engineVars, queueVars, webhookVars, schedulerVars>>
    /\ UNCHANGED <<configVars, lockVars, cacheVars>>

\* sleepWithContext returns: the timer fired, or the context was cancelled
\* and RoundTrip returns the error.
SleepReturns(r) ==
    /\ tpc[r] \in Asleep
    /\ \E outcome \in {"timer", "ctx"} :
          tpc' = [tpc EXCEPT ![r] =
                     IF outcome = "ctx" THEN "idle"
                     ELSE IF tpc[r] = "sleepPre" THEN "send" ELSE "retry"]
    /\ UNCHANGED <<tmu, tresp>>
    /\ UNCHANGED <<transportVars, engineVars, queueVars, webhookVars, schedulerVars>>
    /\ UNCHANGED <<configVars, lockVars, cacheVars>>

\* RoundTrip, github.go 131 and 170: the request goes to t.next.
RequestSent(r) ==
    /\ tpc[r] \in {"send", "retry"}
    /\ tpc' = [tpc EXCEPT ![r] = IF tpc[r] = "send" THEN "inflight" ELSE "inflightRetry"]
    /\ UNCHANGED <<tmu, tresp>>
    /\ UNCHANGED <<transportVars, engineVars, queueVars, webhookVars, schedulerVars>>
    /\ UNCHANGED <<configVars, lockVars, cacheVars>>

\* Where RoundTrip goes once updateFromResponse is over: the first response
\* may call for the sleep before the retry, the retry's response is returned.
AfterUpdate(first, r) ==
    IF first /\ isRateLimited(r) THEN "sleepRetry" ELSE "idle"

\* t.next.RoundTrip returns: an error, or a response, whose headers
\* updateFromResponse parses before it takes t.mu (github.go 235-260).
ResponseArrives(r) ==
    /\ tpc[r] \in InFlight
    /\ \/ /\ tpc' = [tpc EXCEPT ![r] = "idle"]
          /\ UNCHANGED tresp
       \/ \E rs \in MutexResponses :
             /\ tresp' = [tresp EXCEPT ![r] = rs]
             /\ tpc' = [tpc EXCEPT ![r] =
                           IF UpdateAccepted(rs)
                           THEN IF tpc[r] = "inflight" THEN "lockWrite" ELSE "lockWriteRetry"
                           ELSE AfterUpdate(tpc[r] = "inflight", rs)]
    /\ UNCHANGED tmu
    /\ UNCHANGED <<transportVars, engineVars, queueVars, webhookVars, schedulerVars>>
    /\ UNCHANGED <<configVars, lockVars, cacheVars>>

\* updateFromResponse, github.go 263-266: the three stores and the unlock.
WriteAndUnlock(r) ==
    /\ tpc[r] \in {"write", "writeRetry"}
    /\ remaining' = tresp[r].hRemaining.n
    /\ limit' = tresp[r].hLimit.n
    /\ resetAt' = tresp[r].hReset.n * Second
    /\ tmu' = 0
    /\ tpc' = [tpc EXCEPT ![r] = AfterUpdate(tpc[r] = "write", tresp[r])]
    /\ UNCHANGED tresp
    /\ UNCHANGED <<now, rpc, rcalls, sent, resp, firstBody, delay, ctxDone, result,
                   pre, lastResp, prev, cancelledAsleep, sentAtCancel>>
    /\ UNCHANGED <<engineVars, queueVars, webhookVars, schedulerVars>>
    /\ UNCHANGED <<configVars, lockVars, cacheVars>>

MutexNext ==
    \E r \in Requesters :
        \/ RequestBegins(r)
        \/ MutexLock(r)
        \/ ReadAndUnlock(r)
        \/ SleepReturns(r)
        \/ RequestSent(r)
        \/ ResponseArrives(r)
        \/ WriteAndUnlock(r)

\* ================================================= Installation clients
\* internal/github/client.go: CreateInstallationClient and getInstallClient
\* statement by statement for the workers of the queue, with c.mu as a
\* variable.  A client is known by the order of its creation; each creation
\* calls newRateLimitTransport, which allocates a transport of its own.
InstallationIDs == 1..Installations

CacheLockFree_Always == TRUE

\* c.mu.Lock() goes through when nobody holds c.mu.
CacheLockFree == cmu = 0

CacheInit ==
    /\ cmu = 0
    /\ gpc = [w \in Workers |-> "idle"]
    /\ gid = [w \in Workers |-> 0]
    /\ got = [w \in Workers |-> 0]
    /\ installClients = [i \in InstallationIDs |-> 0]
    /\ created = <<>>

\* processJob asks for the client of the job's installation.
CreateInstallationClient(w) ==
    /\ gpc[w] \in {"idle", "done"}
    /\ gpc' = [gpc EXCEPT ![w] = "lock"]
    /\ \E i \in InstallationIDs : gid' = [gid EXCEPT ![w] = i]
    /\ got' = [got EXCEPT ![w] = 0]
    /\ UNCHANGED <<cmu, installClients, created>>
    /\ UNCHANGED <<engineVars, queueVars, transportVars, webhookVars, schedulerVars>>
    /\ UNCHANGED <<configVars, lockVars, mutexVars>>

\* getInstallClient, client.go 291-292: c.mu.Lock() with the unlock deferred.
CacheLock(w) ==
    /\ gpc[w] = "lock"
    /\ CacheLockFree
    /\ cmu' = w
    /\ gpc' = [gpc EXCEPT ![w] = "lookup"]
    /\ UNCHANGED <<gid, got, installClients, created>>
    /\ UNCHANGED <<engineVars, queueVars, transportVars, webhookVars, schedulerVars>>
    /\ UNCHANGED <<configVars, lockVars, mutexVars>>

\* getInstallClient, client.go 294-296: the look in c.installClients; a hit
\* returns the cached client.
CacheLookup(w) ==
    /\ gpc[w] = "lookup"
    /\ IF installClients[gid[w]] # 0
       THEN /\ got' = [got EXCEPT ![w] = installClients[gid[w]]]
            /\ gpc' = [gpc EXCEPT ![w] = "done"]
            /\ cmu' = IF cmu = w THEN 0 ELSE cmu
       ELSE /\ gpc' = [gpc EXCEPT ![w] = "create"]
            /\ UNCHANGED <<got, cmu>>
    /\ UNCHANGED <<gid, installClients, created>>
    /\ UNCHANGED <<engineVars, queueVars, transportVars, webhookVars, schedulerVars>>
    /\ UNCHANGED <<configVars, lockVars, mutexVars>>

\* getInstallClient, client.go 298-307: a new transport and client, stored
\* under the installation and returned.
CacheCreate(w) ==
    /\ gpc[w] = "create"
    /\ created' = Append(created, [installation |-> gid[w],
                                   transport |-> Len(created) + 1])
    /\ installClients' = [installClients EXCEPT ![gid[w]] = Len(created) + 1]
    /\ got' = [got EXCEPT ![w] = Len(created) + 1]
    /\ gpc' = [gpc EXCEPT ![w] = "done"]
    /\ cmu' = IF cmu = w THEN 0 ELSE cmu
    /\ UNCHANGED gid
    /\ UNCHANGED <<engineVars, queueVars, transportVars, webhookVars, schedulerVars>>
    /\ UNCHANGED <<configVars, lockVars, mutexVars>>

CacheNext ==
    \E w \in Workers :
        \/ CreateInstallationClient(w)
        \/ CacheLock(w)
        \/ CacheLookup(w)
        \/ CacheCreate(w)

\* ------------------------------------------------------ specifications
\* The engine at work on one repository; the queue is left aside.
\* Nothing has started yet in the lock-level views of the program.
LocksIdle == LockInit /\ MutexInit /\ CacheInit

FrontInit == WebhookInit /\ SchedulerInit /\ ConfigIdle /\ LocksIdle

Init == EngineInit /\ QueueInit /\ TransportInit /\ FrontInit

Next == EngineNext

Spec == Init /\ [][Next]_vars

\* The state of the engine while the queue is studied.
EngineIdle ==
    /\ engine = [skipForks |-> TRUE, skipArchived |-> TRUE, dryRun |-> TRUE,
                 customPropertiesMode |-> ""]
    /\ repo = NormalRepo
    /\ files = AllPresent
    /\ fileContents = NoCatalog
    /\ refs = <<MainRef>>
    /\ pulls = <<>>
    /\ props = Unset
    /\ pc = [w \in Workers |-> "idle"]
    /\ local = [w \in Workers |-> NoLocal]
    /\ calls = [w \in Workers |-> <<>>]
    /\ start = [w \in Workers |-> NoStart]
    /\ passes = 0
    /\ faults = 0
    /\ external = 0
    /\ settled = [valid |-> FALSE, refs |-> <<>>, pulls |-> <<>>, props |-> Unset]

\* The work queue with its producers, workers and the shutdown sequence.
InitQ == QueueInit /\ EngineIdle /\ TransportInit /\ FrontInit

NextQ == QueueNext

SpecQ == InitQ /\ [][NextQ]_vars

\* The work queue in normal service: producers and workers, no Stop and no
\* cancellation.  main starts the workers, the Go scheduler lets every worker
\* that can take a step take it, and every CheckRepo call returns.
InitL == QueueInit /\ EngineIdle /\ TransportInit /\ FrontInit

NextL ==
    \/ Enqueue
    \/ Start
    \/ \E w \in Workers : StartWorker(w)
    \/ \E w \in Workers : \/ WorkerReceive(w)
                          \/ WorkerSelect(w)
                          \/ ProcessJob(w)
                          \/ CheckRepoReturns(w)

FairL ==
    /\ WF_vars(Start)
    /\ \A w \in Workers :
          /\ WF_vars(StartWorker(w))
          /\ WF_vars(WorkerReceive(w))
          /\ WF_vars(WorkerSelect(w))
          /\ WF_vars(ProcessJob(w))
          /\ WF_vars(CheckRepoReturns(w))

SpecL == InitL /\ [][NextL]_vars /\ FairL

\* The rate-limit transport with one caller, the clock and the responses of
\* the platform.
InitT == TransportInit /\ EngineIdle /\ QueueInit /\ FrontInit

NextT == TransportNext

SpecT == InitT /\ [][NextT]_vars

\* The webhook handler in front of the queue.
InitW == QueueInit /\ EngineIdle /\ TransportInit /\ FrontInit

NextW == WebhookNext

SpecW == InitW /\ [][NextW]_vars

\* The scheduler in front of the queue.
InitS == QueueInit /\ EngineIdle /\ TransportInit /\ FrontInit

NextS == SchedulerNext

SpecS == InitS /\ [][NextS]_vars

\* The start of the process: the environment, Load and main's reaction.
InitC ==
    /\ ConfigInit /\ LocksIdle /\ WebhookInit /\ SchedulerInit /\ QueueInit /\ EngineIdle
    /\ TransportInit

NextC == ConfigNext

SpecC == InitC /\ [][NextC]_vars

\* Callers of Enqueue and of Stop racing for q.mu.
InitK == QueueInit /\ EngineIdle /\ TransportInit /\ FrontInit

NextK == LockNext

SpecK == InitK /\ [][NextK]_vars

\* Requests in RoundTrip at the same time, racing for t.mu.
InitM == QueueInit /\ EngineIdle /\ TransportInit /\ FrontInit

NextM == MutexNext

SpecM == InitM /\ [][NextM]_vars

\* Workers asking for installation clients at the same time.
InitI == QueueInit /\ EngineIdle /\ TransportInit /\ FrontInit

NextI == CacheNext

SpecI == InitI /\ [][NextI]_vars

\* =============================================================== claims
Count(s, Test(_)) == Cardinality({i \in 1..Len(s) : Test(s[i])})

Issued(w, op, target) ==
    {k \in 1..Len(calls[w]) : calls[w][k].op = op /\ calls[w][k].target = target}

Performed(w, op) ==
    {k \in 1..Len(calls[w]) : calls[w][k].op = op /\ calls[w][k].ok}

\* The calls of the pass of w that create a reserved branch or open a pull
\* request from one.
Creations(w) ==
    {k \in 1..Len(calls[w]) :
        /\ calls[w][k].op \in {"CreateBranch", "CreatePullRequest"}
        /\ calls[w][k].target \in ReservedBranches}

\* C1: at every point of every interleaving of passes, each reserved branch
\* name names at most one branch and is the head of at most one open pull
\* request; and the engine keeps it so by looking before it creates: a pass
\* asks for a pull request only from a head that has none in the list it
\* fetched, and a pass that ran alone and met no transient failure never
\* asked for a branch or a pull request that was already there.
C1_AtMostOneBranchAndPull ==
    /\ \A b \in ReservedBranches :
          LET Named(r) == r.Name = b
              From(p) == p.Head = b
          IN Count(refs, Named) <= 1 /\ Count(pulls, From) <= 1
    /\ \A w \in Workers : \A k \in Creations(w) :
          calls[w][k].op = "CreatePullRequest"
          => \A i \in 1..Len(local[w].openPRs) :
                local[w].openPRs[i].Head # calls[w][k].target
    /\ \A w \in Workers :
          (local[w].undisturbed /\ ~local[w].faulted)
          => \A k \in Creations(w) : calls[w][k].ok

\* Two overlapping passes have finished and left the branch with its pull
\* request; one of them, met by no transient failure, had a creation
\* refused because the other had created first.
C1_Witness ==
    /\ HasRef(refs, BranchName)
    /\ HasOpenPull(pulls, BranchName)
    /\ \A w \in Workers : pc[w] = "done" /\ ~local[w].undisturbed
    /\ \E w \in Workers : \E k \in Creations(w) : ~calls[w][k].ok /\ ~local[w].faulted
    /\ external = 0

\* C2: two jobs for the same repository that run in parallel, both having
\* fetched the open pull requests before either opened one, and that meet no
\* transient platform failure, both return without error and leave what two
\* consecutive jobs leave: every reserved branch with its open pull request.
C2_ParallelJobsSucceed ==
    ( /\ \A w \in Workers : pc[w] = "done" /\ ~local[w].undisturbed
      /\ \A w \in Workers : \A b \in ReservedBranches :
            ~HasOpenPull(local[w].openPRs, b)
      /\ faults = 0
      /\ external = 0 )
    => /\ \A w \in Workers : local[w].err = ""
       /\ \A b \in ReservedBranches : HasRef(refs, b) <=> HasOpenPull(pulls, b)

\* C3: a pass that issues CreateBranch for a reserved branch which existed,
\* with no open pull request from it, when the pass began has issued
\* DeleteBranch for it before (or another pass deleted it in the meantime).
C3_StaleBranchDeletedFirst ==
    \A w \in Workers : \A b \in ReservedBranches :
        \A k \in Issued(w, "CreateBranch", b) :
            (b \in start[w].refs /\ b \notin start[w].heads)
            => \/ \E j \in Issued(w, "DeleteBranch", b) : j < k /\ calls[w][j].ok
               \/ b \in start[w].deleted

C3_Witness ==
    \E w \in Workers : \E b \in ReservedBranches :
        /\ b \in start[w].refs
        /\ b \notin start[w].heads
        /\ local[w].undisturbed
        /\ \E k \in Issued(w, "CreateBranch", b) : calls[w][k].ok

\* The concern behind a reserved branch has work to do in the pass of w.
HasWork(w, b) ==
    CASE b = BranchName -> Len(local[w].missing) > 0
      [] b = PropertiesBranchName ->
           local[w].needsUpdate /\ engine.customPropertiesMode = "github-action"
      [] b = CatalogInfoBranchName ->
           /\ local[w].needsUpdate
           /\ ~local[w].catalogFound
           /\ engine.customPropertiesMode = "api"
      [] OTHER -> FALSE

\* C4: a pass issues CreatePullRequest for a concern only if the concern has
\* work to do and the list of open pull requests the pass fetched holds none
\* whose head is the concern's branch.
C4_PullOnlyWhenNeeded ==
    \A w \in Workers : \A b \in ReservedBranches :
        Issued(w, "CreatePullRequest", b) # {}
        => HasWork(w, b) /\ ~findPropertiesPR(local[w].openPRs, b)

C4_Witness ==
    \E w \in Workers :
        /\ pc[w] = "done"
        /\ Issued(w, "CreatePullRequest", PropertiesBranchName) # {}
        /\ HasOpenPull(pulls, PropertiesBranchName)
        /\ ~findPropertiesPR(local[w].openPRs, PropertiesBranchName)

\* C5: with dry-run on, no pass issues any write call, in any metadata mode.
C5_DryRunWritesNothing ==
    engine.dryRun => \A w \in Workers : calls[w] = <<>>

C5_Witness ==
    \E w \in Workers :
        /\ engine.dryRun
        /\ pc[w] = "done"
        /\ Len(local[w].missing) > 0
        /\ local[w].needsUpdate
        /\ engine.customPropertiesMode = "api"

\* C6: in a repository where every enabled rule has a candidate path present
\* and the managed properties match the desired values, no pass issues any
\* write call.
C6_CompliantRepoUntouched ==
    \A w \in Workers : start[w].compliant => calls[w] = <<>>

C6_Witness ==
    \E w \in Workers :
        /\ start[w].compliant
        /\ pc[w] = "done"
        /\ engine.customPropertiesMode = "api"
        /\ ~engine.dryRun
        /\ ~local[w].faulted
        /\ props["JiraProject"] # Parse(CatalogContent).JiraProject

\* A pass of w ends in this step: it began in the state the previous pass
\* left, ran alone and met no transient failure.
RepeatedPassEnds(w) ==
    /\ pc[w] # "done"
    /\ pc'[w] = "done"
    /\ local'[w].fromSettled
    /\ local'[w].undisturbed
    /\ ~local'[w].faulted

\* C7: a pass repeated on a repository nobody changed since the previous
\* pass leaves branches, pull requests and properties as they were, and
\* creates no branch, opens no pull request and writes no property.
C7_Idempotent ==
    [][\A w \in Workers :
          RepeatedPassEnds(w)
          => /\ Snapshot(refs', pulls', props') = settled
             /\ \A k \in 1..Len(calls'[w]) : ~calls'[w][k].ok]_vars

C7_Witness ==
    \E w \in Workers :
        /\ pc[w] = "done"
        /\ local[w].fromSettled
        /\ local[w].undisturbed
        /\ ~local[w].faulted
        /\ settled.valid
        /\ HasOpenPull(pulls, CatalogInfoBranchName)
        /\ findPropertiesPR(local[w].openPRs, CatalogInfoBranchName)

\* C8: when Stop returns, every job Enqueue accepted before Stop was called
\* has been handed to engine.CheckRepo.
C8_StopDrains ==
    \A c \in StopCallers :
        (cancelFn /\ stoppc[c] = "returned") => beforeStop[c] \subseteq processed

\* C9: when Stop has returned, every worker has returned and no CheckRepo
\* call of the queue is executing.
C9_StopWaitsForWorkers ==
    \A c \in StopCallers :
        stoppc[c] = "returned" => \A w \in Workers : wpc[w] \in {"none", "returned"}

C9_Witness ==
    \E c \in StopCallers :
        /\ stoppc[c] = "returned"
        /\ inFlight[c] # {}
        /\ \A w \in Workers : wpc[w] = "returned"

\* C10: once the root context is cancelled, no worker takes a job out of the
\* buffer any more.
C10_NoReceiveAfterCancel == afterCancel = {}

\* C11: once Stop has been called, Accepting() is false and every Enqueue
\* returns the "stopped" error and leaves the buffer as it was.
C11_StoppedQueueRefuses ==
    [][(\E c \in StopCallers : stoppc[c] # "idle")
        => /\ ~Accepting
           /\ (nextJob' # nextJob)
              => (enqResult' = "stopped" /\ ch' = ch /\ accepted' = accepted)]_vars

C11_Witness ==
    /\ \E c \in StopCallers : stoppc[c] # "idle"
    /\ enqResult = "stopped"
    /\ ~Accepting

\* C12: Enqueue can always take its step, whatever the buffer holds and
\* whatever workers and Stop are doing; on a full buffer of a queue that is
\* not stopped it returns the "full" error and leaves the buffer as it was.
C12_EnqueueNeverWaits ==
    /\ []((~panicked /\ nextJob < MaxJobs) => ENABLED Enqueue)
    /\ [][(nextJob' # nextJob /\ ~stopped /\ Len(ch) = QueueSize)
            => (enqResult' = "full" /\ ch' = ch)]_vars

C12_Witness ==
    /\ enqResult = "full"
    /\ Len(ch) = QueueSize
    /\ \E w \in Workers : wpc[w] = "CheckRepo"

\* C13: the jobs of the producer are received by the workers in the order
\* in which Enqueue accepted them (jobs are numbered in that order).
C13_ReceivedInOrder ==
    \A i, j \in 1..Len(received) : i < j => received[i] < received[j]

C13_Witness ==
    /\ Len(received) >= 2
    /\ \A w \in Workers : wjob[w] # 0
    /\ enqResult = "ok"

\* C14: one call of RoundTrip sends at most two requests to the wrapped
\* transport: the original and, after a rate-limited response, one retry.
C14_AtMostTwoRequests == sent <= 2

\* A call that retried and whose retry was rate limited again has returned.
C14_Witness ==
    /\ rpc = "done"
    /\ sent = 2
    /\ result = "response"
    /\ lastResp # NoResponse
    /\ isRateLimited(lastResp)

\* C15: waitIfNeeded sleeps exactly when a limit is known, remaining is at
\* most limit x threshold and the reset time lies in the future; it then
\* sleeps until the reset when remaining is 0 and for the time to the reset
\* divided by remaining otherwise, and never for less than one second.
C15_PreemptiveSleep ==
    pre.valid =>
        /\ pre.slept <=> /\ pre.limit > 0
                         /\ pre.remaining * 100 <= pre.limit * ThresholdPct
                         /\ pre.resetAt > pre.now
        /\ pre.slept =>
              LET until == pre.resetAt - pre.now
                  share == IF pre.remaining = 0 THEN until
                           ELSE until \div pre.remaining
              IN /\ pre.delay >= Second
                 /\ pre.delay = IF share < Second THEN Second ELSE share

\* waitIfNeeded slept for a share of the time to the reset that is longer
\* than the one-second floor.
C15_Witness ==
    /\ pre.valid
    /\ pre.slept
    /\ pre.remaining > 0
    /\ pre.delay > Second
    /\ pre.delay < pre.resetAt - pre.now

\* C16 as stated: after a response every rate-limit field whose header is
\* present holds that header's value, and a field whose header is missing
\* is unchanged.
C16_FieldwiseUpdate ==
    lastResp # NoResponse =>
        /\ IF Parses(lastResp.hRemaining) THEN remaining = lastResp.hRemaining.n
           ELSE remaining = prev.remaining
        /\ IF Parses(lastResp.hLimit) THEN limit = lastResp.hLimit.n
           ELSE limit = prev.limit
        /\ IF Parses(lastResp.hReset) THEN resetAt = lastResp.hReset.n * Second
           ELSE resetAt = prev.resetAt

\* C16, amended: after a response (first attempt or retry) the three
\* rate-limit fields hold the values of the three headers when all three
\* headers are present and numeric; when any of them is missing or not a
\* number, none of the three fields changes.
C16_AllOrNothingUpdate ==
    lastResp # NoResponse =>
        IF \A h \in {lastResp.hRemaining, lastResp.hLimit, lastResp.hReset} :
              h # Missing /\ h # Garbage
        THEN /\ remaining = lastResp.hRemaining.n
             /\ limit = lastResp.hLimit.n
             /\ resetAt = lastResp.hReset.n * Second
        ELSE RateState(remaining, limit, resetAt) = prev

\* The retry's response carried X-RateLimit-Limit and X-RateLimit-Remaining
\* but no X-RateLimit-Reset, and the limit kept its earlier value.
C16_Witness ==
    /\ sent = 2
    /\ lastResp # NoResponse
    /\ Parses(lastResp.hLimit)
    /\ Parses(lastResp.hRemaining)
    /\ lastResp.hReset = Missing
    /\ limit # lastResp.hLimit.n
    /\ limit = prev.limit

\* C17 as stated: when the first response was rate limited and the retry
\* has been sent, the first response's body has been closed.
C17_FirstBodyClosedBeforeRetry == sent = 2 => firstBody = "closed"

\* C18: once the request's context is cancelled while RoundTrip sleeps (in
\* waitIfNeeded or before the retry), the call sends nothing more: it is
\* still in that sleep or has returned the context's error.
C18_CancelledSleepReturns ==
    cancelledAsleep =>
        /\ sent = sentAtCancel
        /\ rpc \in {"sleepPre", "sleepRetry", "done"}
        /\ rpc = "done" => result = "context canceled"

\* A call cancelled during the wait before its retry has returned the
\* context's error after its single request.
C18_Witness ==
    /\ cancelledAsleep
    /\ rpc = "done"
    /\ result = "context canceled"
    /\ sent = 1
    /\ firstBody = "open"

\* What the file-rule part of a pass leaves on the platform: the branch
\* BranchName, the open pull requests from it and the default branch's files.
FileRuleWrites(rs, ps, fs) ==
    LET Named(r) == r.Name = BranchName
        From(p) == p.Head = BranchName
    IN <<SelectSeq(rs, Named), SelectSeq(ps, From), fs>>

\* C19: a pass whose metadata reconciliation fails still returns success,
\* the failure being kept only for the log, and the failing step leaves the
\* branch, pull request and files of the file-rule part as they were.
C19_MetadataFailureIsNotReturned ==
    /\ [](\A w \in Workers :
             (pc[w] = "done" /\ local[w].metaErr # "") => local[w].err = "")
    /\ [][\A w \in Workers :
             (pc[w] # "done" /\ pc'[w] = "done" /\ local'[w].metaErr # "")
                => FileRuleWrites(refs', pulls', files')
                     = FileRuleWrites(refs, pulls, files)]_vars

\* A pass opened the file-rule pull request, then failed in the metadata part
\* and returned success; the pull request is still open.
C19_Witness ==
    \E w \in Workers :
        /\ pc[w] = "done"
        /\ local[w].metaErr # ""
        /\ local[w].err = ""
        /\ \E k \in Performed(w, "CreatePullRequest") : calls[w][k].target = BranchName
        /\ HasOpenPull(pulls, BranchName)
        /\ HasRef(refs, BranchName)

\* The calls of a pass that write properties or open a metadata pull request.
MetadataWrites(w) ==
    {k \in 1..Len(calls[w]) :
        \/ calls[w][k].op = "SetCustomPropertyValues"
        \/ /\ calls[w][k].op = "CreatePullRequest"
           /\ calls[w][k].target \in {PropertiesBranchName, CatalogInfoBranchName}}

\* C20: in both metadata modes a pass writes properties or opens a metadata
\* pull request only when it found that an update is needed, and it finds so
\* exactly when Owner differs, Component differs, or a Jira field the manifest
\* gives differs; a Jira value on the repository that the manifest does not
\* give never counts.
C20_WritesOnlyWhenUpdateNeeded ==
    /\ [](\A w \in Workers : MetadataWrites(w) # {} => local[w].needsUpdate)
    /\ [][\A w \in Workers :
             (pc[w] = "GetCustomPropertyValues" /\ pc'[w] # pc[w]
                /\ local'[w].metaErr = "")
             => LET d == Parse(local[w].content) IN
                local'[w].needsUpdate
                  = (\/ props["Owner"] # d.Owner
                     \/ props["Component"] # d.Component
                     \/ \E n \in {"JiraProject", "JiraLabel"} :
                           d[n] # "" /\ props[n] # d[n])]_vars

\* A pass in api mode replaced an outdated Jira project key.
C20_Witness ==
    \E w \in Workers :
        /\ pc[w] = "done"
        /\ Performed(w, "SetCustomPropertyValues") # {}
        /\ local[w].needsUpdate
        /\ start[w].compliant = FALSE
        /\ local[w].desired.JiraProject = "PROJ"
        /\ props["JiraProject"] = "PROJ"
        /\ props["Owner"] = local[w].desired.Owner
        /\ settled.valid

\* C21 as stated: in api mode, a pass that begins with the branch
\* repo-guardian/add-catalog-info left behind by a pull request a user closed,
\* no catalog-info file in the repository, and that runs alone and without a
\* platform failure, deletes that branch and leaves the catalog-info pull
\* request open again.
C21_ClosedCatalogPullReopened ==
    \A w \in Workers :
        ( /\ pc[w] = "done"
          /\ engine.customPropertiesMode = "api"
          /\ ~engine.dryRun
          /\ ~shouldSkip(engine, repo)
          /\ fileContents = NoCatalog
          /\ external > 0
          /\ CatalogInfoBranchName \in start[w].refs
          /\ CatalogInfoBranchName \notin start[w].heads
          /\ settled.valid )
        => /\ CatalogInfoBranchName \in start[w].deleted
           /\ HasOpenPull(pulls, CatalogInfoBranchName)

\* C22: in api mode with dry-run off, a pass that found no catalog manifest
\* and whose metadata step returned no error leaves Owner and Component set
\* to Unclassified, also when the catalog-info pull request was already open.
C22_UnclassifiedAtLeast ==
    \A w \in Workers :
        ( /\ pc[w] = "done"
          /\ engine.customPropertiesMode = "api"
          /\ ~engine.dryRun
          /\ ~shouldSkip(engine, repo)
          /\ local[w].err = ""
          /\ local[w].metaErr = ""
          /\ ~local[w].catalogFound )
        => /\ props["Owner"] = DefaultOwner
           /\ props["Component"] = DefaultComponent

\* A pass that found the catalog-info pull request open wrote the
\* Unclassified values and opened nothing.
C22_Witness ==
    \E w \in Workers :
        /\ pc[w] = "done"
        /\ engine.customPropertiesMode = "api"
        /\ ~local[w].catalogFound
        /\ local[w].metaErr = ""
        /\ findPropertiesPR(local[w].openPRs, CatalogInfoBranchName)
        /\ Performed(w, "SetCustomPropertyValues") # {}
        /\ Performed(w, "CreatePullRequest") = {}
        /\ props["Owner"] = DefaultOwner

\* The platform writes of the metadata step of worker w's pass.
MetadataCalls(w) ==
    {k \in 1..Len(calls[w]) :
        calls[w][k].target \in {"properties", PropertiesBranchName,
                                CatalogInfoBranchName, WorkflowPath, CatalogYaml}}

\* C23: in api mode with dry-run off, a pass that found a manifest and found
\* the properties differing makes one platform write in its metadata step, a
\* SetCustomPropertyValues that carries Owner and Component always and a Jira
\* property exactly when the manifest gives it, each with the manifest's
\* value; it creates no branch and opens no pull request for metadata.
C23_OneWriteWithManifest ==
    \A w \in Workers :
        ( /\ pc[w] = "done"
          /\ engine.customPropertiesMode = "api"
          /\ ~engine.dryRun
          /\ local[w].catalogFound
          /\ local[w].needsUpdate )
        => LET d == Parse(local[w].content)
               v == local[w].values
               names == {v[i].PropertyName : i \in 1..Len(v)}
           IN /\ Cardinality(MetadataCalls(w)) = 1
              /\ \A k \in MetadataCalls(w) : calls[w][k].op = "SetCustomPropertyValues"
              /\ names = {"Owner", "Component"}
                           \cup {n \in {"JiraProject", "JiraLabel"} : d[n] # ""}
              /\ Len(v) = Cardinality(names)
              /\ \A i \in 1..Len(v) : v[i].Value = d[v[i].PropertyName]

\* A pass wrote Owner and Component from a manifest that has no Jira fields.
C23_Witness ==
    \E w \in Workers :
        /\ pc[w] = "done"
        /\ engine.customPropertiesMode = "api"
        /\ local[w].catalogFound
        /\ local[w].needsUpdate
        /\ Performed(w, "SetCustomPropertyValues") # {}
        /\ Len(local[w].values) = 2
        /\ props["Owner"] = "platform-team"
        /\ props["JiraProject"] = ""

\* C24: in github-action mode no pass calls SetCustomPropertyValues and no
\* step changes the repository's properties; what a pass does about them is
\* the pull request that proposes the workflow.
C24_NoDirectWriteInActionMode ==
    /\ [](engine.customPropertiesMode = "github-action"
            => \A w \in Workers : Issued(w, "SetCustomPropertyValues", "properties") = {})
    /\ [][engine.customPropertiesMode = "github-action" => props' = props]_vars

\* A pass in github-action mode found the properties differing and opened the
\* workflow pull request; the properties are as they were.
C24_Witness ==
    \E w \in Workers :
        /\ pc[w] = "done"
        /\ engine.customPropertiesMode = "github-action"
        /\ local[w].needsUpdate
        /\ \E k \in Performed(w, "CreatePullRequest") :
              calls[w][k].target = PropertiesBranchName
        /\ HasOpenPull(pulls, PropertiesBranchName)
        /\ diffProperties(local[w].desired, props)

\* C25: for a repository that is archived while skipArchived is set, a fork
\* while skipForks is set, or without a default branch, CheckRepo calls
\* GetRepository and nothing else, writes nothing, and returns success
\* (unless GetRepository itself failed).
C25_SkippedRepoUntouched ==
    ( \/ engine.skipArchived /\ repo.Archived
      \/ engine.skipForks /\ repo.Fork
      \/ repo.DefaultRef = "" )
    => \A w \in Workers :
          /\ pc[w] \in {"idle", "GetRepository", "done"}
          /\ calls[w] = <<>>
          /\ local[w].openPRs = <<>>
          /\ pc[w] = "done" =>
                local[w].err = IF local[w].faulted THEN "getting repository info" ELSE ""

\* A pass over a fork has returned success after GetRepository.
C25_Witness ==
    /\ repo.Fork
    /\ ~repo.Archived
    /\ engine.skipForks
    /\ engine.customPropertiesMode = "api"
    /\ \E w \in Workers : pc[w] = "done" /\ local[w].err = "" /\ ~local[w].faulted
    /\ passes = MaxPasses
    /\ props = Unset

\* Some open pull request's title or head branch has one of the rule's
\* search terms as a substring, letter case aside.
Mentions(prs, rule) ==
    \E p \in Range(prs), t \in Range(rule.PRSearchTerms) :
        \E text \in {ToLower(Chars(p.Title)), ToLower(Chars(p.Head))} :
            \E a, b \in 1..Len(text) : SubSeq(text, a, b) = ToLower(Chars(t))

\* C26: when findMissingFiles returns, an enabled rule none of whose
\* candidate paths exists is left out of the missing set exactly when an open
\* pull request mentions it; and the pass proposes files only for the rules
\* of its missing set.
C26_MentionedRuleIsSatisfied ==
    /\ [][\A w \in Workers :
             (pc[w] = "findMissingFiles" /\ pc'[w] # pc[w] /\ ~local'[w].faulted)
             => \A r \in Range(EnabledRules) :
                   (\A i \in 1..Len(r.Paths) : r.Paths[i] \notin files)
                   => (r \notin Range(local'[w].missing)
                         <=> Mentions(local[w].openPRs, r))]_vars
    /\ [](\A w \in Workers : \A k \in 1..Len(calls[w]) :
             (calls[w][k].op = "CreateOrUpdateFile" /\ k \notin MetadataCalls(w))
             => \E r \in Range(local[w].missing) : r.TargetPath = calls[w][k].target)

\* CODEOWNERS is mentioned only by a head branch and Dependabot only by a
\* title, both in another letter case: nothing is missing.
C26_Witness ==
    \E w \in Workers :
        /\ pc[w] = "done"
        /\ files = {}
        /\ Len(local[w].openPRs) = 2
        /\ local[w].missing = <<>>
        /\ local[w].err = ""
        /\ ~local[w].faulted
        /\ calls[w] = <<>>

\* C27: a request whose signature does not verify is never turned into a
\* job, and a POST among them is answered 401 (another method 405, before
\* the signature is looked at).
C27_UnsignedRequestRejected ==
    (whreq # NoRequest /\ ~whreq.signed) =>
        /\ whoffered = <<>>
        /\ whpc = "responded"
        /\ whstatus = IF whreq.method = "POST" THEN StatusUnauthorized
                      ELSE StatusMethodNotAllowed

\* A POST of a repository-created event with a bad signature was answered
\* 401 while the queue had room.
C27_Witness ==
    /\ whpc = "responded"
    /\ whreq.method = "POST"
    /\ ~whreq.signed
    /\ whreq.event = "repository"
    /\ whreq.action = "created"
    /\ whreq.wellFormed
    /\ whstatus = StatusUnauthorized
    /\ ~stopped
    /\ Len(ch) < QueueSize

\* The jobs of the current request that Enqueue turned away.
Refused == {i \in 1..Len(whoffered) : whoffered[i].result # "ok"}

\* C28: when Enqueue fails for a job of a signed, handled event, the handler
\* logs it, drops it (it is in no buffer and is not offered again) and still
\* answers 200 with no body.
C28_EnqueueFailureStillOK ==
    \A i \in Refused :
        /\ whoffered[i].job \in whlogged
        /\ whoffered[i].job \notin accepted
        /\ whoffered[i].job \notin Range(ch)
        /\ \A j \in 1..Len(whoffered) : j # i => whoffered[j].job # whoffered[i].job
        /\ whpc = "responded" => (whstatus = StatusOK /\ whbody = "")

\* An installation event with two repositories: the first fitted into the
\* buffer, the second found it full; the answer is 200.
C28_Witness ==
    /\ whpc = "responded"
    /\ whstatus = StatusOK
    /\ Len(whoffered) = 2
    /\ whoffered[1].result = "ok"
    /\ whoffered[2].result = "full"
    /\ whreq.event = "installation"

\* The request is a signed, parseable POST that is none of repository/created,
\* installation_repositories/added, installation/created.
OtherEvent(r) ==
    /\ r.method = "POST"
    /\ r.signed
    /\ ~ \/ r.event = "repository" /\ r.action = "created"
         \/ r.event = "installation_repositories" /\ r.action = "added"
         \/ r.event = "installation" /\ r.action = "created"

\* C29 as stated: every signed POST of another event or action is answered
\* 200 with no body and enqueues nothing.
C29_OtherEventIs200 ==
    (whpc = "responded" /\ OtherEvent(whreq)) =>
        /\ whoffered = <<>>
        /\ whstatus = StatusOK
        /\ whbody = ""

\* C29, amended: a signed POST of another event or action enqueues nothing;
\* it is answered 200 with no body when the event is one of the three handled
\* types with another action, 204 with no body when it is another event type
\* the library parses, and 400 when the event type is unknown or the payload
\* does not parse.
C29_OtherEventIgnored ==
    (whpc = "responded" /\ OtherEvent(whreq)) =>
        /\ whoffered = <<>>
        /\ IF whreq.event = "unknown" \/ ~whreq.wellFormed
           THEN whstatus = StatusBadRequest
           ELSE IF whreq.event \in {"repository", "installation_repositories", "installation"}
           THEN whstatus = StatusOK /\ whbody = ""
           ELSE whstatus = StatusNoContent /\ whbody = ""

\* A signed check_run event was answered 204.
C29_Witness ==
    /\ whpc = "responded"
    /\ OtherEvent(whreq)
    /\ whreq.event = "check_run"
    /\ whreq.wellFormed
    /\ whstatus = StatusNoContent
    /\ whoffered = <<>>

\* C30 as stated: once the root context is cancelled, Start's loop begins no
\* further sweep.
C30_NoSweepAfterCancel == lateSweeps = 0

\* ------------------------------------------------------------------ C31
\* The repositories the running sweep has handed to Enqueue, in order.
OfferedRepos == [i \in 1..Len(soffered) |-> soffered[i].repo]

\* C31: within a reconciliation pass an Enqueue failure for one repository
\* does not stop the pass: the repositories handed to Enqueue so far followed
\* by those still to come are always the eligible repositories the pass
\* listed, so when the pass ends every eligible repository of every
\* installation was offered, and none was offered twice in the pass.
C31_FailedEnqueueDoesNotStopSweep ==
    sweeps > 0 =>
        /\ OfferedRepos \o spending = slisted
        /\ spc \in {"select", "returned"} => OfferedRepos = slisted
        /\ \A i, j \in 1..Len(soffered) :
              soffered[i].repo = soffered[j].repo => i = j

\* A pass has ended in which Enqueue refused one repository and a repository
\* of another installation was offered after it.
C31_Witness ==
    /\ spc = "select"
    /\ \E i, j \in 1..Len(soffered) :
          /\ i < j
          /\ soffered[i].result # "ok"
          /\ soffered[j].repo.installation # soffered[i].repo.installation

\* ------------------------------------------------------------------ C32
\* C32 as stated: when SKIP_FORKS, SKIP_ARCHIVED or DRY_RUN is set to a value
\* that is not a boolean literal, Load returns an error and main exits.
C32_InvalidBooleanAbortsStartup ==
    (cpc # "start" /\ \E k \in BoolKeys : environ[k] # "" /\ ~ParseBool(environ[k]).ok)
        => (cfgErr # "" /\ cpc # "running")

\* ------------------------------------------------------------------ C33
\* C33 as stated: no pass deletes a reserved branch while an open pull
\* request from that branch exists, whatever other passes on the same
\* repository did since this pass fetched its list of open pull requests.
C33_NoDeleteUnderOpenPull ==
    \A w \in Workers : ~local[w].deletedOpen

\* ------------------------------------------------------------------ C34
\* C34: with no Stop and no cancellation, and with every CheckRepo call
\* returning, every job Enqueue accepted is eventually passed to CheckRepo by
\* a worker, and no job is passed to CheckRepo a second time.
C34_AcceptedJobsProcessedOnce ==
    /\ \A j \in 1..MaxJobs : (j \in accepted) ~> (j \in processed)
    /\ [][\A w \in Workers :
             (wpc[w] = "processJob" /\ wpc'[w] = "CheckRepo")
                 => (wjob[w] \in accepted /\ wjob[w] \notin processed)]_vars

\* More jobs than the buffer holds were accepted and all of them were passed
\* to CheckRepo, each received once.
C34_Witness ==
    /\ ~stopped /\ ~rootCancelled
    /\ Cardinality(accepted) > QueueSize
    /\ processed = accepted
    /\ Len(received) = Cardinality(accepted)
    /\ ch = <<>>

\* ------------------------------------------------------------------ C35
\* C35: under every interleaving of Enqueue and Stop calls no job is sent
\* on the closed buffer: a caller that reaches the send finds the queue
\* neither stopped nor closed, a job Enqueue reported stored is in the
\* buffer's history, and a job it turned away is not.
C35_NoSendOnClosedBuffer ==
    /\ ~sendOnClosed
    /\ \A p \in Producers :
          /\ epc[p] = "send" => (~closed /\ ~stopped)
          /\ eres[p] = "ok" => ejob[p] \in accepted
          /\ eres[p] \in {"full", "stopped"} => ejob[p] \notin accepted
          /\ eres[p] # "panic"

\* One caller of Enqueue stored its job before a Stop closed the buffer and
\* another, arriving after, was turned away.
C35_Witness ==
    /\ closed
    /\ \E p, q \in Producers :
          /\ eres[p] = "ok"
          /\ eres[q] = "stopped"
          /\ ejob[p] < ejob[q]

\* ------------------------------------------------------------------ C36
\* C36 as stated: a second call of Stop, after or during the first, does not
\* panic.
C36_SecondStopIsSafe ==
    \A c \in Stoppers : kpc[c] # "panicked"

\* ------------------------------------------------------------------ C39
\* C39: t.mu is never held by a request that sleeps or whose downstream
\* request is in flight, so a request that waits for t.mu waits only for a
\* request that is copying or storing the three fields.
C39_MutexNotHeldAcrossWait ==
    /\ \A r \in Requesters : tpc[r] \in (Asleep \cup InFlight) => tmu # r
    /\ tmu # 0 => tpc[tmu] \in {"read", "write", "writeRetry"}

\* One request sleeps while the other stores the rate-limit state under the
\* mutex.
C39_Witness ==
    \E r, s \in Requesters :
        /\ tpc[r] \in Asleep
        /\ tpc[s] \in {"write", "writeRetry"}
        /\ tmu = s

\* ------------------------------------------------------------------ C40
\* C40: at most one client, with its own transport, is ever created for an
\* installation; every worker that asked for an installation holds that one
\* client; clients of different installations have different transports.
C40_OneClientPerInstallation ==
    /\ \A i, j \in 1..Len(created) :
          (created[i].installation = created[j].installation
             \/ created[i].transport = created[j].transport) => i = j
    /\ \A i \in InstallationIDs :
          installClients[i] # 0 =>
              /\ installClients[i] \in 1..Len(created)
              /\ created[installClients[i]].installation = i
    /\ \A w \in Workers :
          gpc[w] = "done" => (got[w] # 0 /\ got[w] = installClients[gid[w]])

\* Two workers hold the same client of one installation, and another
\* installation has a client of its own.
C40_Witness ==
    /\ \A w \in Workers : gpc[w] = "done"
    /\ \E w, v \in Workers : w # v /\ gid[w] = gid[v] /\ got[w] = got[v] /\ got[w] # 0
    /\ Len(created) > 1

\* ------------------------------------------------------------------ C37
\* A pass that began after a pass failed between creating the
\* add-missing-files branch and opening its pull request, with the branch
\* still there and no pull request open from it, and that ran alone, without
\* a transient failure, on a repository no user has changed.
RetryPassEnds(w) ==
    /\ pc[w] # "done"
    /\ pc'[w] = "done"
    /\ local'[w].afterPartial
    /\ BranchName \in start[w].refs
    /\ BranchName \notin start[w].heads
    /\ local'[w].undisturbed
    /\ ~local'[w].faulted
    /\ external' = 0

\* C37: a pass without failures that follows a pass which failed after
\* creating the add-missing-files branch and before opening its pull request,
\* on the otherwise unchanged repository, ends with that branch present and
\* exactly one open pull request from it.
C37_RetryAfterPartialPassRecovers ==
    [][\A w \in Workers :
          RetryPassEnds(w)
          => LET From(p) == p.Head = BranchName
             IN /\ HasRef(refs', BranchName)
                /\ Count(pulls', From) = 1
                /\ local'[w].err = ""]_vars

\* The retry deleted the branch the failed pass had left, created it again
\* and opened the pull request.
C37_Witness ==
    \E w \in Workers :
        /\ pc[w] = "done"
        /\ local[w].afterPartial
        /\ BranchName \in start[w].refs
        /\ BranchName \notin start[w].heads
        /\ local[w].undisturbed
        /\ ~local[w].faulted
        /\ external = 0
        /\ \E k \in 1..Len(calls[w]) :
              calls[w][k] = [op |-> "DeleteBranch", target |-> BranchName, ok |-> TRUE]
        /\ \E k \in 1..Len(calls[w]) :
              calls[w][k] = [op |-> "CreatePullRequest", target |-> BranchName, ok |-> TRUE]
        /\ HasRef(refs, BranchName)
        /\ HasOpenPull(pulls, BranchName)

\* ------------------------------------------------------------------ C38
\* The pass of w found its add-missing-files pull request open, and the
\* branch held one of the files it proposes before the pass wrote anything
\* to that path.
BranchHeldProposedFile(w) ==
    /\ local[w].existingPR
    /\ \E i \in 1..Len(local[w].missing) :
          LET path == local[w].missing[i].TargetPath
          IN /\ \E j \in 1..Len(refs) :
                   refs[j].Name = BranchName /\ path \in refs[j].Files
             /\ \A k \in 1..Len(calls[w]) :
                   ~(calls[w][k] = [op |-> "CreateOrUpdateFile", target |-> path, ok |-> TRUE])

\* C38: a pass, met by no transient failure and run alone, on a repository
\* whose add-missing-files pull request is open and whose branch already
\* holds a proposed file, returns without error.
C38_PassOnOpenPullCompletes ==
    \A w \in Workers :
        (/\ pc[w] = "done"
         /\ BranchHeldProposedFile(w)
         /\ local[w].undisturbed
         /\ ~local[w].faulted
         /\ external = 0)
        => local[w].err = ""
====
